---- MODULE Spec2Model ----
(***************************************************************************)
(* A model of the Pincer worker boundary (apps/pincer-worker): the pairing *)
(* store, the adapter registry, the signed-request verifier, the rate      *)
(* limiter, the egress proxy's host re-check, the admin session store and  *)
(* the login lockout.  Every KV get/put/delete is one atomic step; a       *)
(* handler is a chain of such steps and handlers of different requests     *)
(* interleave between them.  Each subsystem has its own specification      *)
(* (SpecPairing, SpecRegistry, ...) over the shared variables.             *)
(***************************************************************************)
EXTENDS Integers, Sequences, FiniteSets, TLC

VARIABLES
  nowMs,        \* Date.now()
  \* pairing store
  kvPairing,    \* KV entries pairing:<CODE>
  issued,       \* codes createPairingCode has handed out so far
  connReq,      \* POST /v1/connect requests in flight
  served,       \* per code: how many connect calls answered 200
  \* adapter registry
  kvIndex,      \* KV entry adapter_registry:index
  kvManifest,   \* KV entries adapter_registry:manifest:<adapterId>:<revision>
  kvProposal,   \* KV entries adapter_registry:proposal:<proposalId>
  kvAudit,      \* KV entries audit:proposal:<occurredAt>:<eventId>, in key order
  nextProposalId, \* proposal ids created so far + 1
  regReq,       \* registry calls in flight
  regCalls,     \* registry calls started so far
  registryCache, \* the isolate's registryCache: index, manifests, loadedAtMs
  \* signed-request verifier
  authCall,     \* the last verifySignedRequest call: its arguments and result
  \* egress proxy
  rateCounters, \* rate-limit.ts: the isolate's rateCounters map
  proxyReq,     \* POST /v1/adapter/<adapter>/<action> requests in flight
  proxyCalls,   \* proxy requests received so far
  outbound,     \* the upstream requests fetchImpl has been called with
  admitted,     \* per counter key: how many requests passed the rate-limit step
  \* admin sessions
  kvSession,    \* KV entries admin:session:<sessionId>
  nextSid,      \* session ids randomHex has produced so far + 1
  adminReq,     \* /v1/admin/* requests in flight
  lastUse,      \* per session id: when a request last authenticated with it
  loginAt,      \* per session id: when the login it descends from happened
  retired,      \* session ids whose rotation has been answered with a new cookie
  boundaryLog,  \* what admin handlers behind the gate have read or written
  adminCalls,   \* admin requests received so far
  \* admin login
  kvAdminUser,  \* KV entry admin:user:primary
  kvLogin,      \* KV entries admin:login:<username>:<clientId>
  loginReq,     \* POST /v1/admin/session/login requests in flight
  failures,     \* per (username, clientId): login failures since the last success
  loginCalls,   \* login requests received so far
  \* admin bootstrap
  bootReq,      \* POST /v1/admin/bootstrap requests in flight
  bootCalls,    \* bootstrap requests received so far
  bootOk,       \* the admin records of the bootstrap calls answered 200, in order
  \* secret vault
  kvVault,      \* KV entries vault:secret:<binding>
  \* runtime key rotation
  kvRuntime,    \* KV entry runtime:active
  configCache,  \* config.ts: the isolate's configCache
  rotReq,       \* POST /v1/admin/runtime/rotate requests in flight
  rtReq,        \* runtime requests being authenticated
  nextGen,      \* credentials minted so far + 1
  revoked,      \* generations that existed when a rotate answered 200 started
  rotCalls,     \* rotate requests received so far
  rtCalls,      \* runtime requests received so far
  \* secrets admin endpoints, run side by side on two boundaries
  shadowVault,  \* the vault of a second boundary that differs in plaintexts only
  secretResp,   \* the last response of a secrets endpoint
  shadowResp,   \* the response the second boundary gave to the same request
  listReq,      \* GET /v1/admin/secrets in flight, on both boundaries
  secretCalls,  \* secrets requests received so far
  \* the vault's resolver, called directly
  lastPut,      \* per binding, the plaintext of the last putVaultSecret ("" after a delete)
  lastResolve,     \* the last resolveSecretValue call and its result
  vaultCalls,   \* vault calls made so far
  schemaCall,   \* the last validateInputWithSchema call and its result
  loggedOut,    \* session ids whose logout has been answered
  genReq        \* the POST /v1/admin/pairing/generate request in flight

pairingVars == <<kvPairing, issued, connReq, served>>
registryVars == <<kvIndex, kvManifest, kvProposal, kvAudit, nextProposalId, regReq, regCalls>>
verifyVars == <<authCall>>
proxyVars == <<rateCounters, proxyReq, proxyCalls, outbound, admitted>>
sessionVars == <<kvSession, nextSid, adminReq, lastUse, loginAt, retired, boundaryLog,
                 adminCalls>>
loginVars == <<kvAdminUser, kvLogin, loginReq, failures, loginCalls>>
bootVars == <<bootReq, bootCalls, bootOk>>
cacheVars == <<registryCache>>

\* the state of the subsystems that do not take part in the others' actions
vaultVars == <<kvVault>>
rotateVars == <<kvRuntime, configCache, rotReq, rtReq, nextGen, revoked, rotCalls, rtCalls>>
secretsVars == <<shadowVault, secretResp, shadowResp, listReq, secretCalls>>
resolverVars == <<lastPut, lastResolve, vaultCalls>>
laterVars == <<resolverVars, schemaCall, loggedOut, genReq>>
moreVars == <<bootVars, vaultVars, rotateVars, secretsVars, laterVars>>

vars == <<nowMs, pairingVars, registryVars, verifyVars, proxyVars, sessionVars, loginVars,
          cacheVars, moreVars>>

\* what the actions of one subsystem leave alone
exceptPairing == <<registryVars, verifyVars, proxyVars, sessionVars, loginVars, cacheVars, moreVars>>
exceptRegistry == <<pairingVars, verifyVars, proxyVars, sessionVars, loginVars, moreVars>>
exceptVerify == <<pairingVars, registryVars, proxyVars, sessionVars, loginVars, cacheVars, moreVars>>
exceptProxy == <<pairingVars, registryVars, verifyVars, sessionVars, loginVars, moreVars>>
exceptSession == <<pairingVars, registryVars, verifyVars, proxyVars, loginVars, cacheVars, moreVars>>
outsideSecrets == <<pairingVars, registryVars, verifyVars, proxyVars, cacheVars, sessionVars,
                    loginVars, bootVars, laterVars>>
outsideRotate == <<outsideSecrets, secretsVars>>
coreVars == <<pairingVars, registryVars, verifyVars, proxyVars, cacheVars>>
exceptAdmin == <<coreVars, moreVars>>

NoRecord == [present |-> FALSE]

Min(a, b) == IF a < b THEN a ELSE b
Max(a, b) == IF a > b THEN a ELSE b

(***************************************************************************)
(* Text is a sequence of characters over a small alphabet, so that trim()  *)
(* and toUpperCase() are computed rather than assumed.                     *)
(***************************************************************************)
Upper(ch) ==
  CASE ch = "a" -> "A" [] ch = "b" -> "B" [] ch = "g" -> "G" [] ch = "e" -> "E"
    [] ch = "t" -> "T" [] ch = "p" -> "P" [] ch = "o" -> "O" [] ch = "s" -> "S"
    [] OTHER -> ch

ToUpperCase(s) == [i \in 1..Len(s) |-> Upper(s[i])]

RECURSIVE TrimStart(_)
TrimStart(s) == IF s # <<>> /\ Head(s) = " " THEN TrimStart(Tail(s)) ELSE s

RECURSIVE TrimEnd(_)
TrimEnd(s) ==
  IF s # <<>> /\ s[Len(s)] = " " THEN TrimEnd(SubSeq(s, 1, Len(s) - 1)) ELSE s

Trim(s) == TrimEnd(TrimStart(s))

(***************************************************************************)
(* Pairing store: POST /v1/admin/pairing/generate and POST /v1/connect.    *)
(***************************************************************************)
PAIRING_TTL_SECONDS == 900

MaxConnReqs == 2
MaxPairingTicks == 2

ConnSlots == 1..MaxConnReqs

\* the codes createPairingCode can return (upper-case alphabet only)
Codes == {<<"A", "B">>, <<"B", "A">>}

\* what a caller may send as body.code
CodeInputs ==
  {<<"A", "B">>, <<"a", "b">>, <<" ", "B", "A", " ">>, <<" ">>, <<"A", "A">>}

PairingKvKey(code) == ToUpperCase(Trim(code))

PairingCredentials == [workerUrl |-> "worker", runtimeKey |-> "rk.secret", hmacSecret |-> "hmac"]

IdleConn == [pc |-> "idle", code |-> <<>>, stored |-> NoRecord, status |-> 0, error |-> ""]

\* index.ts: the pairing/generate handler's kv.put (behind the admin gate); a
\* random 8-symbol code is never handed out twice
PairingGenerate(c) ==
  /\ c \in Codes \ issued
  /\ issued' = issued \cup {c}
  /\ kvPairing' = [kvPairing EXCEPT ![PairingKvKey(c)] =
       [present |-> TRUE, value |-> PairingCredentials,
        expiresAtMs |-> nowMs + PAIRING_TTL_SECONDS * 1000]]
  /\ UNCHANGED <<nowMs, connReq, served, exceptPairing>>

\* the KV store drops an entry once its expirationTtl has run out
KvExpirePairing(c) ==
  /\ kvPairing[c].present
  /\ nowMs >= kvPairing[c].expiresAtMs
  /\ kvPairing' = [kvPairing EXCEPT ![c] = NoRecord]
  /\ UNCHANGED <<nowMs, issued, connReq, served, exceptPairing>>

\* handleConnect up to and including `await kv.get(key)` and the code that
\* runs on its result
ConnectGet(r, code) ==
  /\ connReq[r].pc = "idle"
  /\ LET normalizedCode == Trim(code)
         key == PairingKvKey(normalizedCode)
         stored == IF key \in DOMAIN kvPairing THEN kvPairing[key] ELSE NoRecord
     IN  connReq' = [connReq EXCEPT ![r] =
           IF Len(normalizedCode) = 0
             THEN [pc |-> "done", code |-> code, stored |-> NoRecord,
                   status |-> 400, error |-> "missing_code"]
           ELSE IF ~stored.present
             THEN [pc |-> "done", code |-> code, stored |-> NoRecord,
                   status |-> 404, error |-> "invalid_or_expired_code"]
           ELSE [pc |-> "delete", code |-> code, stored |-> stored,
                 status |-> 0, error |-> ""]]
  /\ UNCHANGED <<nowMs, kvPairing, issued, served, exceptPairing>>

\* handleConnect: `await kv.delete(key)` and the 200 response built from the
\* record read earlier
ConnectDelete(r) ==
  /\ connReq[r].pc = "delete"
  /\ LET key == PairingKvKey(Trim(connReq[r].code))
     IN  /\ kvPairing' = [kvPairing EXCEPT ![key] = NoRecord]
         /\ served' = [served EXCEPT ![key] = @ + 1]
  /\ connReq' = [connReq EXCEPT ![r].pc = "done", ![r].status = 200]
  /\ UNCHANGED <<nowMs, issued, exceptPairing>>

\* the response has been sent; the slot takes the next request
ConnectReturn(r) ==
  /\ connReq[r].pc = "done"
  /\ connReq' = [connReq EXCEPT ![r] = IdleConn]
  /\ UNCHANGED <<nowMs, kvPairing, issued, served, exceptPairing>>

PairingTick ==
  /\ nowMs < MaxPairingTicks * PAIRING_TTL_SECONDS * 1000
  /\ nowMs' = nowMs + PAIRING_TTL_SECONDS * 1000
  /\ UNCHANGED <<pairingVars, exceptPairing>>

(***************************************************************************)
(* Adapter manifests and validateAdapterManifest.  A URL is a record       *)
(* [protocol, host]; an action path is a sequence of tokens, so that a     *)
(* path beginning with "//" resolves to another authority as new URL()     *)
(* resolves it.                                                            *)
(***************************************************************************)
MaxRevision == 2

Adapters == {"youtube", "gdrive"}
Revisions == 1..MaxRevision

ToLowerCaseHost(h) ==
  CASE h = "YouTube.GoogleApis.com" -> "youtube.googleapis.com"
    [] h = "Evil.Example" -> "evil.example"
    [] OTHER -> h

\* new URL(path, base): a path that starts with "//" names its own authority
ResolveUrl(path, base) ==
  IF Len(path) >= 3 /\ path[1] = "/" /\ path[2] = "/"
    THEN [protocol |-> base.protocol, host |-> ToLowerCaseHost(path[3])]
    ELSE [protocol |-> base.protocol, host |-> ToLowerCaseHost(base.host)]

BaseHost(a) == IF a = "youtube" THEN "youtube.googleapis.com" ELSE "www.googleapis.com"
BindingOf(a) == IF a = "youtube" THEN "YOUTUBE_API_KEY" ELSE "GDRIVE_TOKEN"
ActionOf(a) == IF a = "youtube" THEN "list_channel_videos" ELSE "drive_list_files"

InputSchemaOf(a) ==
  [required |-> {"q"}, additionalProperties |-> FALSE,
   properties |-> [k \in {"q", "n"} |->
     IF k = "q" THEN [type |-> "string", minLength |-> 1, maxLength |-> 2]
                ELSE [type |-> "integer", minimum |-> 1, maximum |-> 2]]]

\* a manifest as submitted: `rate` is the action's limits.ratePerMinute, so two
\* manifests of one (id, revision) with different rates differ in content
RawManifest(a, rev, rate, baseUrl, hosts, path, secrets) ==
  [id |-> a, revision |-> rev, baseUrl |-> baseUrl, allowedHosts |-> hosts,
   requiredSecrets |-> secrets,
   actions |-> [n \in {ActionOf(a)} |->
     [method |-> "GET", path |-> path, requestMode |-> "query",
      auth |-> [placement |-> "query", name |-> "key", secretBinding |-> BindingOf(a)],
      limits |-> [maxBodyKb |-> 1, timeoutMs |-> 10000, ratePerMinute |-> rate],
      inputSchema |-> InputSchemaOf(a)]]]

GoodManifest(a, rev, rate) ==
  RawManifest(a, rev, rate, [protocol |-> "https:", host |-> BaseHost(a)],
              <<BaseHost(a)>>, <<"/", "v3", "/", "search">>, <<BindingOf(a)>>)

GoodManifests ==
  { GoodManifest(a, rev, rate) : a \in Adapters, rev \in Revisions, rate \in {1, 2} }
  \cup { RawManifest("gdrive", 1, 1, [protocol |-> "https:", host |-> BaseHost("gdrive")],
                     <<BaseHost("gdrive")>>, <<"/", "v3", "/", "search">>,
                     <<BindingOf("gdrive"), "UNSET_KEY">>),
       RawManifest("gdrive", 1, 1, [protocol |-> "https:", host |-> BaseHost("gdrive")],
                   <<BaseHost("gdrive")>>, <<"/", "v3", "/", "search">>,
                   <<BindingOf("gdrive"), "VAULT_KEY">>),
       RawManifest("gdrive", 1, 1, [protocol |-> "https:", host |-> BaseHost("gdrive")],
                   <<BaseHost("gdrive")>>, <<"/", "v3", "/", "search">>,
                   <<BindingOf("gdrive"), "UNSET_KEY", "VAULT_KEY">>) }

\* manifests validateAdapterManifest must refuse
BadManifests ==
  { RawManifest("youtube", 0, 1, [protocol |-> "https:", host |-> BaseHost("youtube")],
                <<BaseHost("youtube")>>, <<"/", "v3">>, <<"YOUTUBE_API_KEY">>),
    RawManifest("youtube", 1, 1, [protocol |-> "http:", host |-> BaseHost("youtube")],
                <<BaseHost("youtube")>>, <<"/", "v3">>, <<"YOUTUBE_API_KEY">>),
    RawManifest("youtube", 1, 1, [protocol |-> "https:", host |-> BaseHost("youtube")],
                <<BaseHost("youtube")>>, <<"/", "/", "Evil.Example", "/", "x">>, <<"YOUTUBE_API_KEY">>),
    RawManifest("youtube", 1, 1, [protocol |-> "https:", host |-> BaseHost("youtube")],
                <<"evil.example">>, <<"/", "v3">>, <<"YOUTUBE_API_KEY">>),
    RawManifest("youtube", 1, 1, [protocol |-> "https:", host |-> BaseHost("youtube")],
                <<BaseHost("youtube")>>, <<"v3">>, <<"YOUTUBE_API_KEY">>),
    RawManifest("youtube", 1, 1, [protocol |-> "https:", host |-> BaseHost("youtube")],
                <<BaseHost("youtube")>>, <<"/", "v3">>, <<>>) }

ManifestInputs == GoodManifests \cup BadManifests

SeqToSet(q) == {q[i] : i \in 1..Len(q)}

\* validateHost, applied to each entry: trimmed, lower-cased
NormalizeHosts(hosts) == [i \in 1..Len(hosts) |-> ToLowerCaseHost(hosts[i])]

\* validateAction's and validateAdapterManifest's checks on one action
ActionErrors(raw, action) ==
  LET resolved == ResolveUrl(action.path, raw.baseUrl)
      allowed == SeqToSet(NormalizeHosts(raw.allowedHosts))
  IN  (IF action.method \notin {"GET", "POST"} THEN {"method"} ELSE {})
      \cup (IF action.path = <<>> \/ action.path[1] # "/" THEN {"path_not_absolute"} ELSE {})
      \cup (IF action.requestMode \notin {"query", "json"} THEN {"requestMode"} ELSE {})
      \cup (IF action.auth.placement \notin {"header", "query"} THEN {"placement"} ELSE {})
      \cup (IF action.limits.maxBodyKb <= 0 \/ action.limits.maxBodyKb > 1024
              THEN {"maxBodyKb"} ELSE {})
      \cup (IF action.limits.timeoutMs <= 0 \/ action.limits.timeoutMs > 120000
              THEN {"timeoutMs"} ELSE {})
      \cup (IF action.limits.ratePerMinute <= 0 \/ action.limits.ratePerMinute > 100000
              THEN {"ratePerMinute"} ELSE {})
      \cup (IF action.auth.secretBinding \notin SeqToSet(raw.requiredSecrets)
              THEN {"secretBinding_not_listed"} ELSE {})
      \cup (IF raw.baseUrl.protocol = "https:" /\ resolved.protocol # "https:"
              THEN {"resolved_not_https"} ELSE {})
      \cup (IF raw.baseUrl.protocol = "https:" /\ resolved.host \notin allowed
              THEN {"resolved_host_not_allowed"} ELSE {})

ManifestErrors(raw) ==
  (IF raw.revision <= 0 THEN {"revision"} ELSE {})
  \cup (IF raw.baseUrl.protocol # "https:" THEN {"baseUrl_not_https"} ELSE {})
  \cup (IF raw.allowedHosts = <<>> THEN {"allowedHosts_empty"} ELSE {})
  \cup (IF raw.baseUrl.protocol = "https:" /\ raw.allowedHosts # <<>>
           /\ ToLowerCaseHost(raw.baseUrl.host) \notin SeqToSet(NormalizeHosts(raw.allowedHosts))
          THEN {"allowedHosts_without_baseUrl"} ELSE {})
  \cup UNION {ActionErrors(raw, raw.actions[n]) : n \in DOMAIN raw.actions}

\* {ok, manifest} or {ok: false, errors}
ValidateAdapterManifest(raw) ==
  IF "id" \notin DOMAIN raw
    THEN [ok |-> FALSE, manifest |-> NoRecord, errors |-> {"not_an_object"}]
  ELSE IF ManifestErrors(raw) = {}
    THEN [ok |-> TRUE,
          manifest |-> [raw EXCEPT !.allowedHosts = NormalizeHosts(raw.allowedHosts)],
          errors |-> {}]
    ELSE [ok |-> FALSE, manifest |-> NoRecord, errors |-> ManifestErrors(raw)]


(***************************************************************************)
(* Adapter registry (adapters/index.ts): the index blob, the manifest      *)
(* snapshots, the proposal records and the audit log, all in one KV        *)
(* namespace.  Each registry call is a chain of KV operations.             *)
(***************************************************************************)
MaxProposals == 2
MaxRegReqs == 2
MaxRegCalls == 3
MaxRegistryTicks == 1

RegSlots == 1..MaxRegReqs
ProposalIds == 1..MaxProposals

\* the worker's environment bindings that hold a string
EnvBindings ==
  {"YOUTUBE_API_KEY", "GDRIVE_TOKEN", "PINCER_HMAC_SECRET_ACTIVE",
   "PINCER_RUNTIME_KEY_SECRET_ACTIVE"}

\* env[binding] when it is a string, else ""
\* the runtime fallback bindings hold the credentials of the first setup
EnvValue(binding) ==
  IF binding = "PINCER_HMAC_SECRET_ACTIVE" THEN "hmac"
  ELSE IF binding = "PINCER_RUNTIME_KEY_SECRET_ACTIVE" THEN "key1"
  ELSE IF binding \in EnvBindings THEN "env-value"
  ELSE ""

(***************************************************************************)
(* Secret vault (vault.ts).  A ciphertext is the triple of what AES-GCM    *)
(* was given: the key, the nonce and the plaintext; decryption with        *)
(* another key or nonce fails.                                             *)
(***************************************************************************)
VaultBindings ==
  EnvBindings \cup {"UNSET_KEY", "VAULT_KEY"}

\* env.PINCER_VAULT_KEK
VaultKek == "kek"

\* deriveVaultKey: SHA-256 of the trimmed KEK
DeriveVaultKey(kek) == <<"sha256", kek>>

\* A secret's text is a sequence of units: a run of ordinary characters
\* (named by the run), a byte order mark U+FEFF, an unpaired surrogate or
\* the replacement character U+FFFD.  CodeUnits gives the units of the
\* strings the model uses and StringOf the string of a sequence of units.
SpecialTexts == {"bom", "bom+p1", "surrogate", "replacement"}

CodeUnits(text) ==
  IF text = "" THEN <<>>
  ELSE IF text = "bom" THEN <<"U+FEFF">>
  ELSE IF text = "bom+p1" THEN <<"U+FEFF", "p1">>
  ELSE IF text = "surrogate" THEN <<"U+D800">>
  ELSE IF text = "replacement" THEN <<"U+FFFD">>
  ELSE <<text>>

StringOf(units) ==
  IF units = <<>> THEN ""
  ELSE IF \E t \in SpecialTexts : CodeUnits(t) = units
    THEN CHOOSE t \in SpecialTexts : CodeUnits(t) = units
  ELSE units[1]

\* textEncoder.encode: UTF-8, an unpaired surrogate becomes U+FFFD
TextEncode(units) ==
  [i \in 1..Len(units) |->
     IF units[i] = "U+FEFF" THEN "EF BB BF"
     ELSE IF units[i] \in {"U+D800", "U+FFFD"} THEN "EF BF BD"
     ELSE units[i]]

\* textDecoder.decode with the decoder's default options: a leading byte
\* order mark is dropped
TextDecode(bytes) ==
  LET body == IF Len(bytes) > 0 /\ bytes[1] = "EF BB BF" THEN Tail(bytes) ELSE bytes
  IN  [i \in 1..Len(body) |->
         IF body[i] = "EF BB BF" THEN "U+FEFF"
         ELSE IF body[i] = "EF BF BD" THEN "U+FFFD"
         ELSE body[i]]

\* encryptValue
EncryptValue(kek, nonce, plaintext) ==
  [nonce |-> nonce,
   ciphertext |-> [key |-> DeriveVaultKey(kek), iv |-> nonce,
                   text |-> TextEncode(CodeUnits(plaintext))]]

\* decryptValue, for a record whose key and nonce match
DecryptValue(ciphertext) == StringOf(TextDecode(ciphertext.text))

\* the record putVaultSecret stores
VaultRecord(kek, nonce, plaintext, updatedAt, updatedBy) ==
  [present |-> TRUE, keyId |-> "v1", nonce |-> nonce,
   ciphertext |-> EncryptValue(kek, nonce, plaintext).ciphertext,
   updatedAt |-> updatedAt, updatedBy |-> updatedBy]

\* getVaultSecretValue: "" without a record or when decryptValue throws
GetVaultSecretValue(store, binding) ==
  LET record == store[binding]
  IN  IF ~record.present THEN ""
      ELSE IF record.ciphertext.key = DeriveVaultKey(VaultKek)
                /\ record.ciphertext.iv = record.nonce
        THEN DecryptValue(record.ciphertext)
      ELSE ""

\* resolveSecretValue: the vault's plaintext if non-empty, else the
\* same-named environment binding
ResolveSecretValue(store, binding) ==
  LET vaultValue == GetVaultSecretValue(store, binding)
  IN  IF vaultValue # "" THEN vaultValue ELSE EnvValue(binding)

\* a vault that holds one secret the environment does not
InitialVault ==
  [b \in VaultBindings |->
     IF b = "VAULT_KEY" THEN VaultRecord(VaultKek, 0, "vault-value", 0, "admin")
     ELSE NoRecord]

\* readSecretBinding(env, name).length === 0
ReadSecretBindingEmpty(name) == name \notin EnvBindings

EmptyIndex == [proposals |-> <<>>, active |-> [a \in Adapters |-> NoRecord]]

CACHE_TTL_MS == 10000

\* invalidateRegistryCache
EmptyCache ==
  [loadedAtMs |-> 0, index |-> NoRecord, manifests |-> [a \in Adapters |-> NoRecord]]

IdleReg ==
  [op |-> "none", pc |-> "idle", manifest |-> NoRecord, adapterId |-> "",
   enabled |-> FALSE, index |-> EmptyIndex, proposal |-> NoRecord,
   updateType |-> "", status |-> 0, error |-> "", updatedAt |-> 0,
   callNo |-> 0, solo |-> FALSE, pre |-> NoRecord, missingSecrets |-> {},
   reason |-> NoRecord, supplied |-> {}]

Summary(rec) ==
  [proposalId |-> rec.proposalId, adapterId |-> rec.adapterId,
   revision |-> rec.revision, submittedBy |-> rec.submittedBy]

\* index.proposals.filter((p) => p.proposalId !== proposalId)
RECURSIVE WithoutProposal(_, _)
WithoutProposal(proposals, pid) ==
  IF proposals = <<>> THEN <<>>
  ELSE IF Head(proposals).proposalId = pid THEN WithoutProposal(Tail(proposals), pid)
  ELSE <<Head(proposals)>> \o WithoutProposal(Tail(proposals), pid)

REASON_MAX_LENGTH == 500

\* a reason is absent (NoRecord) or a text
ReasonOf(text) == [present |-> TRUE, text |-> text]

\* normalizeReason: undefined unless a string that is non-empty once trimmed;
\* at most 500 characters of it
NormalizeReason(reason) ==
  IF ~reason.present THEN NoRecord
  ELSE LET trimmed == Trim(reason.text)
       IN  IF Len(trimmed) = 0 THEN NoRecord
           ELSE ReasonOf(SubSeq(trimmed, 1, Min(Len(trimmed), REASON_MAX_LENGTH)))

\* the audit event without the proposal's manifest
AuditEventWithoutManifest(type, proposal, actor, reason) ==
  [eventType |-> type, proposalId |-> proposal.proposalId,
   adapterId |-> proposal.adapterId, revision |-> proposal.revision,
   actor |-> actor, manifest |-> NoRecord, reason |-> NormalizeReason(reason)]

\* the event writeProposalAuditEvent stores
AuditEvent(type, proposal, actor, reason) ==
  [eventType |-> type, proposalId |-> proposal.proposalId,
   adapterId |-> proposal.adapterId, revision |-> proposal.revision,
   actor |-> actor, manifest |-> proposal.manifest, reason |-> NormalizeReason(reason)]

AUDIT_DEFAULT_LIMIT == 50
AUDIT_MAX_LIMIT == 200

\* parseProposalAuditEvent: null unless the stored manifest validates
ParseProposalAuditEvent(stored) ==
  LET manifestValidation ==
        IF "id" \in DOMAIN stored.manifest THEN ValidateAdapterManifest(stored.manifest)
        ELSE [ok |-> FALSE]
  IN  IF ~manifestValidation.ok THEN NoRecord
      ELSE [present |-> TRUE, eventType |-> stored.eventType,
            proposalId |-> stored.proposalId, adapterId |-> stored.adapterId,
            revision |-> stored.revision, actor |-> stored.actor,
            reason |-> NormalizeReason(stored.reason),
            manifest |-> manifestValidation.manifest]

RECURSIVE NewestFirst(_)
NewestFirst(store) ==
  IF store = <<>> THEN <<>>
  ELSE LET event == ParseProposalAuditEvent(store[Len(store)])
           older == NewestFirst(SubSeq(store, 1, Len(store) - 1))
       IN  IF event.present THEN <<event>> \o older ELSE older

\* listProposalAuditEvents without `since`: the events that parse, newest
\* first, at most `limit` of them (0 stands for no limit given)
ListProposalAuditEvents(store, limit) ==
  LET events == NewestFirst(store)
      most == IF limit = 0 THEN AUDIT_DEFAULT_LIMIT
              ELSE Max(1, Min(AUDIT_MAX_LIMIT, limit))
  IN  SubSeq(events, 1, Min(most, Len(events)))

Fail(req, status, error) ==
  [req EXCEPT !.pc = "done", !.status = status, !.error = error]

Succeed(req, status) == [req EXCEPT !.pc = "done", !.status = status]

\* manifest.requiredSecrets.filter((b) => readSecretBinding(env, b).length === 0)
MissingSecrets(manifest) ==
  {b \in SeqToSet(manifest.requiredSecrets) : ReadSecretBindingEmpty(b)}

\* ---- submitAdapterProposal ----

\* validateAdapterManifest, createProposalId and the kv.put of the proposal record
SubmitPut(r, raw, by) ==
  /\ regReq[r].pc = "idle"
  /\ regCalls < MaxRegCalls
  /\ regCalls' = regCalls + 1
  /\ LET validation == ValidateAdapterManifest(raw)
     IN  IF ~validation.ok
           THEN /\ regReq' = [regReq EXCEPT ![r] =
                     Fail([IdleReg EXCEPT !.op = "submit"], 400, "invalid_manifest")]
                /\ UNCHANGED <<kvProposal, nextProposalId>>
           ELSE /\ nextProposalId <= MaxProposals
                /\ LET record == [present |-> TRUE, proposalId |-> nextProposalId,
                                  adapterId |-> validation.manifest.id,
                                  revision |-> validation.manifest.revision,
                                  submittedBy |-> by, manifest |-> validation.manifest]
                   IN  /\ kvProposal' = [kvProposal EXCEPT ![nextProposalId] = record]
                       /\ regReq' = [regReq EXCEPT ![r] =
                            [IdleReg EXCEPT !.op = "submit", !.pc = "readIndex",
                                            !.manifest = validation.manifest,
                                            !.proposal = record]]
                /\ nextProposalId' = nextProposalId + 1
  /\ UNCHANGED <<nowMs, kvIndex, kvManifest, kvAudit, registryCache, exceptRegistry>>

\* `const index = await readIndex(env)`
SubmitReadIndex(r) ==
  /\ regReq[r].op = "submit" /\ regReq[r].pc = "readIndex"
  /\ regReq' = [regReq EXCEPT ![r].index = kvIndex, ![r].pc = "writeIndex"]
  /\ UNCHANGED <<nowMs, kvIndex, kvManifest, kvProposal, kvAudit, nextProposalId, regCalls,
                 registryCache, exceptRegistry>>

\* index.proposals.push(...); await writeIndex(env, index)
SubmitWriteIndex(r) ==
  /\ regReq[r].op = "submit" /\ regReq[r].pc = "writeIndex"
  /\ kvIndex' = [regReq[r].index EXCEPT
       !.proposals = Append(@, Summary(regReq[r].proposal))]
  /\ regReq' = [regReq EXCEPT ![r].pc = "audit"]
  /\ registryCache' = EmptyCache
  /\ UNCHANGED <<nowMs, kvManifest, kvProposal, kvAudit, nextProposalId, regCalls, exceptRegistry>>

\* writeProposalAuditEvent(proposal_submitted) and the result
SubmitAudit(r) ==
  /\ regReq[r].op = "submit" /\ regReq[r].pc = "audit"
  /\ kvAudit' = Append(kvAudit,
       AuditEvent("proposal_submitted", regReq[r].proposal, regReq[r].proposal.submittedBy,
                  NoRecord))
  /\ regReq' = [regReq EXCEPT ![r] = Succeed(@, 200)]
  /\ UNCHANGED <<nowMs, kvIndex, kvManifest, kvProposal, nextProposalId, regCalls,
                 registryCache, exceptRegistry>>

\* ---- applyAdapterManifest ----

\* which of payload.proposalId and payload.manifest the request carries
SuppliedArguments(proposalId, raw) ==
  (IF proposalId # 0 THEN {"proposalId"} ELSE {})
  \cup (IF raw # NoRecord THEN {"manifest"} ELSE {})

\* with a proposalId: getAdapterProposal; without: validateAdapterManifest.
\* supplied records what the request carried.
ApplyStart(r, proposalId, raw) ==
  /\ regReq[r].pc = "idle"
  /\ regCalls < MaxRegCalls
  /\ regCalls' = regCalls + 1
  /\ LET usingProposal == proposalId # 0
         proposalRecord == IF usingProposal THEN kvProposal[proposalId] ELSE NoRecord
         validation == ValidateAdapterManifest(raw)
         \* callNo, solo and pre record the call's ordinal, whether no other
         \* registry call was in progress when it started, and the registry it
         \* started from
         solo == \A q \in RegSlots \ {r} : regReq[q].pc = "idle"
         supplied == SuppliedArguments(proposalId, raw)
         req == IF solo
                  THEN [IdleReg EXCEPT !.op = "apply", !.callNo = regCalls + 1,
                          !.solo = TRUE, !.supplied = supplied,
                          !.pre = [present |-> TRUE, index |-> kvIndex,
                                   manifests |-> kvManifest]]
                  ELSE [IdleReg EXCEPT !.op = "apply", !.supplied = supplied]
     IN  regReq' = [regReq EXCEPT ![r] =
           IF usingProposal
             THEN IF ~proposalRecord.present
                    THEN Fail(req, 404, "proposal_not_found")
                    ELSE [req EXCEPT !.pc = "readIndex", !.proposal = proposalRecord,
                                     !.manifest = proposalRecord.manifest]
             ELSE IF ~validation.ok
                    THEN Fail(req, 400, "invalid_manifest")
                    ELSE [req EXCEPT !.pc = "readIndex", !.manifest = validation.manifest]]
  /\ UNCHANGED <<nowMs, kvIndex, kvManifest, kvProposal, kvAudit, nextProposalId,
                 registryCache, exceptRegistry>>

\* applyAdapterManifest with writeIndex moved ahead of the snapshot put
ApplyWriteOrderIndexFirst(usingProposal) ==
  IF usingProposal THEN <<"writeIndex", "putSnapshot", "deleteProposal", "audit">>
                   ELSE <<"writeIndex", "putSnapshot">>

\* the order of applyAdapterManifest's KV writes: the snapshot put (line 713),
\* the proposal delete (724), writeIndex (727), the audit event (730)
ApplyWriteOrder(usingProposal) ==
  IF usingProposal THEN <<"putSnapshot", "deleteProposal", "writeIndex", "audit">>
                   ELSE <<"putSnapshot", "writeIndex">>

\* the step after `pc` in `order`, "done" after the last
NextStep(order, pc) ==
  LET i == CHOOSE k \in 1..Len(order) : order[k] = pc
  IN  IF i = Len(order) THEN "done" ELSE order[i + 1]

\* an apply call that reports a conflict once its first write is done
ApplyAdvanceFailingLate(req) ==
  LET next == NextStep(ApplyWriteOrder(req.proposal.present), req.pc)
  IN  IF req.updateType = "in_place_update" THEN Fail(req, 409, "revision_conflict")
      ELSE IF next = "done" THEN Succeed(req, 200) ELSE [req EXCEPT !.pc = next]

\* an apply call moves on from the write `pc`
ApplyAdvance(req) ==
  LET next == NextStep(ApplyWriteOrder(req.proposal.present), req.pc)
  IN  IF next = "done" THEN Succeed(req, 200) ELSE [req EXCEPT !.pc = next]

\* the missing-secrets check and what follows it
AfterRevisionCheck(req, updateType) ==
  IF MissingSecrets(req.manifest) # {}
    THEN [Fail(req, 400, "missing_required_secrets")
            EXCEPT !.missingSecrets = MissingSecrets(req.manifest)]
    ELSE [req EXCEPT !.pc = ApplyWriteOrder(req.proposal.present)[1],
                     !.updateType = updateType]

\* readIndex and the comparison with the active revision
ApplyReadIndex(r) ==
  /\ regReq[r].op = "apply" /\ regReq[r].pc = "readIndex"
  /\ LET req == [regReq[r] EXCEPT !.index = kvIndex]
         manifest == req.manifest
         active == kvIndex.active[manifest.id]
     IN  regReq' = [regReq EXCEPT ![r] =
           IF ~active.present THEN AfterRevisionCheck(req, "new_install")
           ELSE IF manifest.revision < active.revision
             THEN Fail(req, 409, "revision_outdated")
           ELSE IF manifest.revision = active.revision
             THEN [req EXCEPT !.pc = "readManifest"]
           ELSE AfterRevisionCheck(req, "in_place_update")]
  /\ UNCHANGED <<nowMs, kvIndex, kvManifest, kvProposal, kvAudit, nextProposalId, regCalls,
                 registryCache, exceptRegistry>>

\* the update type with new_install reported for every re-apply
SameRevisionUpdateTypeNewInstall(active) == "new_install"

\* updateType = active.enabled ? "in_place_update" : "re_enable"
SameRevisionUpdateType(active) ==
  IF active.enabled THEN "in_place_update" ELSE "re_enable"

\* same revision: readManifest and the stableStringify comparison; the
\* canonical text of two manifests is equal exactly when their content is
ApplyReadManifest(r) ==
  /\ regReq[r].op = "apply" /\ regReq[r].pc = "readManifest"
  /\ LET req == regReq[r]
         manifest == req.manifest
         current == kvManifest[<<manifest.id, manifest.revision>>]
         active == req.index.active[manifest.id]
     IN  regReq' = [regReq EXCEPT ![r] =
           IF ~current.present THEN Fail(req, 500, "internal_error")
           ELSE IF current.value # manifest THEN Fail(req, 409, "revision_conflict")
           ELSE AfterRevisionCheck(req, SameRevisionUpdateType(active))]
  /\ UNCHANGED <<nowMs, kvIndex, kvManifest, kvProposal, kvAudit, nextProposalId, regCalls,
                 registryCache, exceptRegistry>>

\* kv.put(manifestKvKey(id, revision), manifest); the entry's updatedAt is
\* taken when the put has returned
ApplyPutSnapshot(r) ==
  /\ regReq[r].op = "apply" /\ regReq[r].pc = "putSnapshot"
  /\ LET manifest == regReq[r].manifest
     IN  kvManifest' = [kvManifest EXCEPT ![<<manifest.id, manifest.revision>>] =
           [present |-> TRUE, value |-> manifest]]
  /\ regReq' = [regReq EXCEPT ![r] = ApplyAdvance([@ EXCEPT !.updatedAt = nowMs])]
  /\ UNCHANGED <<nowMs, kvIndex, kvProposal, kvAudit, nextProposalId, regCalls, registryCache,
                 exceptRegistry>>

\* kv.delete(proposalKvKey(proposalId))
ApplyDeleteProposal(r) ==
  /\ regReq[r].op = "apply" /\ regReq[r].pc = "deleteProposal"
  /\ kvProposal' = [kvProposal EXCEPT ![regReq[r].proposal.proposalId] = NoRecord]
  /\ regReq' = [regReq EXCEPT ![r] = ApplyAdvance(@)]
  /\ UNCHANGED <<nowMs, kvIndex, kvManifest, kvAudit, nextProposalId, regCalls, registryCache,
                 exceptRegistry>>

\* writeIndex of the index read earlier, with the adapter's entry replaced and,
\* for a proposal, its summary filtered out
ApplyWriteIndex(r) ==
  /\ regReq[r].op = "apply" /\ regReq[r].pc = "writeIndex"
  /\ LET req == regReq[r]
         manifest == req.manifest
         proposals == IF req.proposal.present
                        THEN WithoutProposal(req.index.proposals, req.proposal.proposalId)
                        ELSE req.index.proposals
     IN  kvIndex' = [proposals |-> proposals,
                     active |-> [req.index.active EXCEPT ![manifest.id] =
                       [present |-> TRUE, revision |-> manifest.revision,
                        enabled |-> TRUE, updatedAt |-> req.updatedAt]]]
  /\ regReq' = [regReq EXCEPT ![r] = ApplyAdvance(@)]
  /\ registryCache' = EmptyCache
  /\ UNCHANGED <<nowMs, kvManifest, kvProposal, kvAudit, nextProposalId, regCalls, exceptRegistry>>

\* writeProposalAuditEvent(proposal_approved)
ApplyAudit(r) ==
  /\ regReq[r].op = "apply" /\ regReq[r].pc = "audit"
  /\ kvAudit' = Append(kvAudit, AuditEvent("proposal_approved", regReq[r].proposal, "admin",
                                          NoRecord))
  /\ regReq' = [regReq EXCEPT ![r] = ApplyAdvance(@)]
  /\ UNCHANGED <<nowMs, kvIndex, kvManifest, kvProposal, nextProposalId, regCalls,
                 registryCache, exceptRegistry>>

\* ---- rejectAdapterProposal ----

\* the reject route's reading of payload.reason (trimmed, refused beyond 500
\* characters, undefined when empty) and getAdapterProposal
RejectGet(r, proposalId, reason) ==
  /\ regReq[r].pc = "idle"
  /\ regCalls < MaxRegCalls
  /\ regCalls' = regCalls + 1
  /\ LET proposal == kvProposal[proposalId]
         req == [IdleReg EXCEPT !.op = "reject"]
         reasonRaw == IF reason.present THEN Trim(reason.text) ELSE <<>>
     IN  regReq' = [regReq EXCEPT ![r] =
           IF Len(reasonRaw) > REASON_MAX_LENGTH THEN Fail(req, 400, "invalid_reason")
           ELSE IF ~proposal.present THEN Fail(req, 404, "proposal_not_found")
           ELSE [req EXCEPT !.pc = "readIndex", !.proposal = proposal,
                            !.reason = IF Len(reasonRaw) > 0 THEN ReasonOf(reasonRaw)
                                       ELSE NoRecord]]
  /\ UNCHANGED <<nowMs, kvIndex, kvManifest, kvProposal, kvAudit, nextProposalId,
                 registryCache, exceptRegistry>>

RejectReadIndex(r) ==
  /\ regReq[r].op = "reject" /\ regReq[r].pc = "readIndex"
  /\ regReq' = [regReq EXCEPT ![r].index = kvIndex, ![r].pc = "writeIndex"]
  /\ UNCHANGED <<nowMs, kvIndex, kvManifest, kvProposal, kvAudit, nextProposalId, regCalls,
                 registryCache, exceptRegistry>>

RejectWriteIndex(r) ==
  /\ regReq[r].op = "reject" /\ regReq[r].pc = "writeIndex"
  /\ kvIndex' = [regReq[r].index EXCEPT
       !.proposals = WithoutProposal(@, regReq[r].proposal.proposalId)]
  /\ regReq' = [regReq EXCEPT ![r].pc = "deleteProposal"]
  /\ registryCache' = EmptyCache
  /\ UNCHANGED <<nowMs, kvManifest, kvProposal, kvAudit, nextProposalId, regCalls, exceptRegistry>>

RejectDelete(r) ==
  /\ regReq[r].op = "reject" /\ regReq[r].pc = "deleteProposal"
  /\ kvProposal' = [kvProposal EXCEPT ![regReq[r].proposal.proposalId] = NoRecord]
  /\ regReq' = [regReq EXCEPT ![r].pc = "audit"]
  /\ UNCHANGED <<nowMs, kvIndex, kvManifest, kvAudit, nextProposalId, regCalls, registryCache,
                 exceptRegistry>>

RejectAudit(r) ==
  /\ regReq[r].op = "reject" /\ regReq[r].pc = "audit"
  /\ kvAudit' = Append(kvAudit, AuditEvent("proposal_rejected", regReq[r].proposal, "admin",
                                          regReq[r].reason))
  /\ regReq' = [regReq EXCEPT ![r] = Succeed(@, 200)]
  /\ UNCHANGED <<nowMs, kvIndex, kvManifest, kvProposal, nextProposalId, regCalls,
                 registryCache, exceptRegistry>>

\* writeProposalAuditEvent's kv.put throws: nothing around the call catches
\* it (nor does the route, nor the worker's fetch handler), so the request
\* ends with the platform's answer to an uncaught exception
AuditPutFails(r) ==
  /\ regReq[r].op \in {"submit", "apply", "reject"} /\ regReq[r].pc = "audit"
  /\ regReq' = [regReq EXCEPT ![r] = Fail(@, 500, "uncaught_exception")]
  /\ UNCHANGED <<nowMs, kvIndex, kvManifest, kvProposal, kvAudit, nextProposalId, regCalls,
                 registryCache, exceptRegistry>>

\* ---- enableAdapter / disableAdapter ----

ToggleRead(r, adapterId, enabled) ==
  /\ regReq[r].pc = "idle"
  /\ regCalls < MaxRegCalls
  /\ regCalls' = regCalls + 1
  /\ LET req == [IdleReg EXCEPT !.op = "toggle", !.adapterId = adapterId,
                                !.enabled = enabled, !.index = kvIndex,
                                !.updatedAt = nowMs]
     IN  regReq' = [regReq EXCEPT ![r] =
           IF ~kvIndex.active[adapterId].present THEN Fail(req, 404, "adapter_not_found")
           ELSE [req EXCEPT !.pc = "writeIndex"]]
  /\ UNCHANGED <<nowMs, kvIndex, kvManifest, kvProposal, kvAudit, nextProposalId,
                 registryCache, exceptRegistry>>

ToggleWrite(r) ==
  /\ regReq[r].op = "toggle" /\ regReq[r].pc = "writeIndex"
  /\ kvIndex' = [regReq[r].index EXCEPT
       !.active[regReq[r].adapterId].enabled = regReq[r].enabled,
       !.active[regReq[r].adapterId].updatedAt = regReq[r].updatedAt]
  /\ regReq' = [regReq EXCEPT ![r] = Succeed(@, 200)]
  /\ registryCache' = EmptyCache
  /\ UNCHANGED <<nowMs, kvManifest, kvProposal, kvAudit, nextProposalId, regCalls, exceptRegistry>>

\* the call has returned; the slot takes the next call
RegReturn(r) ==
  /\ regReq[r].pc = "done"
  /\ regReq' = [regReq EXCEPT ![r] = IdleReg]
  /\ UNCHANGED <<nowMs, kvIndex, kvManifest, kvProposal, kvAudit, nextProposalId, regCalls,
                 registryCache, exceptRegistry>>

\* the worker stops in the middle of a call (an exception of the KV store, the
\* isolate being evicted): the writes made so far stay, the rest never happen
RegInterrupt(r) ==
  /\ regReq[r].pc \notin {"idle", "done"}
  /\ regReq' = [regReq EXCEPT ![r] = IdleReg]
  /\ UNCHANGED <<nowMs, kvIndex, kvManifest, kvProposal, kvAudit, nextProposalId, regCalls,
                 registryCache, exceptRegistry>>

\* time passes between two steps of the registry
RegistryTick ==
  /\ nowMs < MaxRegistryTicks * 1000
  /\ nowMs' = nowMs + 1000
  /\ UNCHANGED <<kvIndex, kvManifest, kvProposal, kvAudit, nextProposalId, regReq, regCalls,
                 registryCache, exceptRegistry>>

(***************************************************************************)
(* Signed runtime requests: verifySignedRequest and                        *)
(* authenticateRuntimeRequest.  A digest is the tuple of what was hashed,  *)
(* so two digests are equal exactly when the inputs are.  A signature or   *)
(* body-hash header is [pad, prefix, hex]: surrounding blanks or not, the  *)
(* text before the digest, the digest.  A timestamp header is              *)
(* [digits, value, rest]: a leading number or not, and the text after it.  *)
(***************************************************************************)
MaxVerifyHalfSeconds == 3

Sha256Hex(value) == <<"sha256", value>>
HmacSha256Hex(secret, value) == <<"hmac", secret, value>>

ConstantTimeEqual(a, b) == a = b

\* the header's text as a bare digest
Hex(digest) == [prefix |-> "", hex |-> digest]

\* trim(), then drop a leading "v1="
NormalizeSignature(signature) ==
  [prefix |-> IF signature.prefix = "v1=" THEN "" ELSE signature.prefix,
   hex |-> signature.hex]

CreateCanonicalString(method, path, timestamp, bodySha256) ==
  <<ToUpperCase(method), path, timestamp, bodySha256>>

\* Number.parseInt(String(timestamp), 10): the leading number if there is one
ParseInt(text) ==
  IF text.digits THEN [finite |-> TRUE, value |-> text.value]
                 ELSE [finite |-> FALSE, value |-> 0]

Abs(x) == IF x < 0 THEN -x ELSE x

\* Math.abs(currentSeconds - ts) >= skewSeconds in place of >
StaleAtSkew(currentSeconds, ts, skewSeconds) == Abs(currentSeconds - ts) >= skewSeconds

Stale(currentSeconds, ts, skewSeconds) == Abs(currentSeconds - ts) > skewSeconds

\* verifySignedRequest with the body hash compared before the timestamp is read
VerifySignedRequestHashFirst(o) ==
  LET parsed == ParseInt(o.timestamp)
      ts == parsed.value
      currentSeconds == o.nowMs \div 1000
      computedBodyHash == Sha256Hex(o.body)
      canonical == CreateCanonicalString(o.method, o.path, ts, computedBodyHash)
      expectedSignature == Hex(HmacSha256Hex(o.secret, canonical))
  IN  IF o.secret = "" THEN [ok |-> FALSE, reason |-> "missing_secret"]
      ELSE IF ~ConstantTimeEqual(NormalizeSignature(o.bodySha256), Hex(computedBodyHash))
        THEN [ok |-> FALSE, reason |-> "invalid_body_hash"]
      ELSE IF ~parsed.finite THEN [ok |-> FALSE, reason |-> "invalid_timestamp"]
      ELSE IF Stale(currentSeconds, ts, o.skewSeconds)
        THEN [ok |-> FALSE, reason |-> "stale_timestamp"]
      ELSE IF ~ConstantTimeEqual(expectedSignature, NormalizeSignature(o.signature))
        THEN [ok |-> FALSE, reason |-> "invalid_signature"]
      ELSE [ok |-> TRUE, reason |-> ""]

VerifySignedRequest(o) ==
  LET parsed == ParseInt(o.timestamp)
      ts == parsed.value
      currentSeconds == o.nowMs \div 1000
      computedBodyHash == Sha256Hex(o.body)
      canonical == CreateCanonicalString(o.method, o.path, ts, computedBodyHash)
      expectedSignature == Hex(HmacSha256Hex(o.secret, canonical))
  IN  IF o.secret = "" THEN [ok |-> FALSE, reason |-> "missing_secret"]
      ELSE IF ~parsed.finite THEN [ok |-> FALSE, reason |-> "invalid_timestamp"]
      ELSE IF Stale(currentSeconds, ts, o.skewSeconds)
        THEN [ok |-> FALSE, reason |-> "stale_timestamp"]
      ELSE IF ~ConstantTimeEqual(NormalizeSignature(o.bodySha256), Hex(computedBodyHash))
        THEN [ok |-> FALSE, reason |-> "invalid_body_hash"]
      ELSE IF ~ConstantTimeEqual(expectedSignature, NormalizeSignature(o.signature))
        THEN [ok |-> FALSE, reason |-> "invalid_signature"]
      ELSE [ok |-> TRUE, reason |-> ""]

\* "Bearer <keyId>.<keySecret>"
ParseBearer(authorization) ==
  IF /\ Len(authorization) = 4
     /\ authorization[1] = "Bearer "
     /\ authorization[3] = "."
     /\ authorization[2] # ""
     /\ authorization[4] # ""
    THEN [ok |-> TRUE, keyId |-> authorization[2], keySecret |-> authorization[4]]
    ELSE [ok |-> FALSE]

\* authenticateRuntimeRequest, given what getRuntimeRecord and
\* resolveSecretValue(runtime.hmacSecretBinding) returned
AuthenticateRuntimeRequest(request, runtime, hmacSecret, now) ==
  LET bearer == ParseBearer(request.authorization)
      signatureCheck == VerifySignedRequest(
        [method |-> request.method, path |-> request.path,
         timestamp |-> request.timestamp, body |-> request.body,
         bodySha256 |-> request.bodySha256, signature |-> request.signature,
         secret |-> hmacSecret,
         skewSeconds |-> IF runtime.skewSeconds = 0 THEN 60 ELSE runtime.skewSeconds,
         nowMs |-> now])
  IN  IF ~bearer.ok
        THEN [ok |-> FALSE, reason |-> "invalid_runtime_key_format", status |-> 401]
      ELSE IF ~runtime.present
        THEN [ok |-> FALSE, reason |-> "missing_runtime_config", status |-> 500]
      ELSE IF bearer.keyId # runtime.id
        THEN [ok |-> FALSE, reason |-> "unknown_runtime_key", status |-> 401]
      ELSE IF ~ConstantTimeEqual(Sha256Hex(bearer.keySecret), runtime.keyHash)
        THEN [ok |-> FALSE, reason |-> "invalid_runtime_key", status |-> 401]
      ELSE IF hmacSecret = ""
        THEN [ok |-> FALSE, reason |-> "missing_hmac_secret", status |-> 500]
      ELSE IF ~signatureCheck.ok
        THEN [ok |-> FALSE, reason |-> signatureCheck.reason, status |-> 401]
      ELSE [ok |-> TRUE, reason |-> "", status |-> 200, keyId |-> runtime.id]

\* runtime:active as getRuntimeRecord returns it (skewSeconds resolved, > 0)
RuntimeRecord(skewSeconds) ==
  [present |-> TRUE, id |-> "rt_1", keyHash |-> Sha256Hex("key1"),
   hmacSecretBinding |-> "PINCER_HMAC_SECRET_ACTIVE", skewSeconds |-> skewSeconds]

SkewChoices == {2, 60}
Methods == {<<"p", "o", "s", "t">>, <<"P", "O", "S", "T">>}
Bodies == {"{}", "{q}"}
Authorizations == {<<"Bearer ", "rt_1", ".", "key1">>, <<"Bearer ", "rt_1", ".", "key2">>}
AdapterPath == "/v1/adapter/youtube/list_channel_videos"

\* x-pincer-timestamp values around the edge of the window, and one that is
\* not a number
TimestampHeaders(currentSeconds, skewSeconds) ==
  { [digits |-> TRUE, value |-> currentSeconds + d, rest |-> ""] :
      d \in {0 - (skewSeconds + 1), 0 - skewSeconds, 0, skewSeconds, skewSeconds + 1} }
  \cup { [digits |-> FALSE, value |-> 0, rest |-> "soon"] }

\* x-pincer-body-sha256 values: the bare digest of some body, or the digest of
\* the body sent, versioned and padded
BodyHashHeaders(body) ==
  { [pad |-> FALSE, prefix |-> "", hex |-> Sha256Hex(b)] : b \in Bodies }
  \cup { [pad |-> TRUE, prefix |-> "v1=", hex |-> Sha256Hex(body)] }

\* x-pincer-signature values: what a client holding `secret` produces for the
\* request it means to send, which may differ from the one received
SignatureHeaders(method, path, ts) ==
  { [pad |-> FALSE, prefix |-> prefix,
     hex |-> HmacSha256Hex(secret, CreateCanonicalString(method, path, t, Sha256Hex(b)))] :
      prefix \in {"v1=", "", "v2="}, secret \in {"hmac", "other"},
      t \in {ts, ts + 1}, b \in Bodies }

\* one call of authenticateRuntimeRequest: the request is drawn around the
\* current second, the runtime record and the resolved secret are given
AuthenticateCall(skewSeconds, hmacSecret) ==
  /\ ~authCall.present
  /\ \E timestamp \in TimestampHeaders(nowMs \div 1000, skewSeconds),
        method \in Methods, body \in Bodies, authorization \in Authorizations :
       \E bodySha256 \in BodyHashHeaders(body),
          signature \in SignatureHeaders(method, AdapterPath, timestamp.value) :
         LET request == [authorization |-> authorization, method |-> method,
                         path |-> AdapterPath, body |-> body, timestamp |-> timestamp,
                         bodySha256 |-> bodySha256, signature |-> signature]
             runtime == RuntimeRecord(skewSeconds)
         IN  authCall' =
               [present |-> TRUE, request |-> request, runtime |-> runtime,
                hmacSecret |-> hmacSecret, nowMs |-> nowMs,
                result |-> AuthenticateRuntimeRequest(request, runtime, hmacSecret, nowMs)]
  /\ UNCHANGED <<nowMs, exceptVerify>>

AuthenticateReturn ==
  /\ authCall.present
  /\ authCall' = NoRecord
  /\ UNCHANGED <<nowMs, exceptVerify>>

\* Date.now() between two calls
VerifyTick ==
  /\ ~authCall.present
  /\ nowMs < MaxVerifyHalfSeconds * 500
  /\ nowMs' = nowMs + 500
  /\ UNCHANGED <<verifyVars, exceptVerify>>

\* Authorization headers: well-formed for the active key, without the
\* Bearer scheme, with three parts, for another key id, with a wrong secret
OrderAuthorizations ==
  {<<"Bearer ", "rt_1", ".", "key1">>, <<"Basic ", "rt_1", ".", "key1">>,
   <<"Bearer ", "rt_1", ".", "key1", ".", "x">>, <<"Bearer ", "rt_9", ".", "key1">>,
   <<"Bearer ", "rt_1", ".", "key2">>}

\* one call of authenticateRuntimeRequest in which any subset of its checks
\* may fail: getRuntimeRecord may throw (runtime absent) and the secret may
\* be unset
AuthenticateAnyCall(runtime, hmacSecret) ==
  /\ ~authCall.present
  /\ \E authorization \in OrderAuthorizations,
        timestamp \in {[digits |-> TRUE, value |-> nowMs \div 1000, rest |-> ""],
                       [digits |-> TRUE, value |-> nowMs \div 1000 + 61, rest |-> ""],
                       [digits |-> FALSE, value |-> 0, rest |-> "soon"]},
        hashed \in Bodies, signed \in Bodies, secret \in {"hmac", "other"} :
       LET body == "{}"
           method == <<"P", "O", "S", "T">>
           request ==
             [authorization |-> authorization, method |-> method, path |-> AdapterPath,
              body |-> body, timestamp |-> timestamp,
              bodySha256 |-> [pad |-> FALSE, prefix |-> "", hex |-> Sha256Hex(hashed)],
              signature |-> [pad |-> FALSE, prefix |-> "v1=",
                             hex |-> HmacSha256Hex(secret,
                                       CreateCanonicalString(method, AdapterPath,
                                                             timestamp.value,
                                                             Sha256Hex(signed)))]]
       IN  authCall' =
             [present |-> TRUE, request |-> request, runtime |-> runtime,
              hmacSecret |-> hmacSecret, nowMs |-> nowMs,
              result |-> AuthenticateRuntimeRequest(request, runtime, hmacSecret, nowMs)]
  /\ UNCHANGED <<nowMs, exceptVerify>>

NextAuthOrder ==
  \/ \E runtime \in {RuntimeRecord(60), NoRecord}, hmacSecret \in {"hmac", ""} :
       AuthenticateAnyCall(runtime, hmacSecret)
  \/ AuthenticateReturn

NextVerify ==
  \/ \E skewSeconds \in SkewChoices, hmacSecret \in {"hmac", ""} :
       AuthenticateCall(skewSeconds, hmacSecret)
  \/ AuthenticateReturn
  \/ VerifyTick

(***************************************************************************)
(* Egress proxy: proxyAdapterRequest and the in-memory rate limiter.       *)
(***************************************************************************)
RATE_BUCKET_MS == 60000

MaxProxyReqs == 2
MaxProxyCalls == 3
MaxProxyTicks == 2

ProxySlots == 1..MaxProxyReqs

\* existing > limitPerMinute in place of >=
RateExceededPast(existing, limitPerMinute) == existing > limitPerMinute

RateExceeded(existing, limitPerMinute) == existing >= limitPerMinute

CounterKey(keyId, adapter, action, now) ==
  <<keyId, adapter, action, now \div RATE_BUCKET_MS>>

\* enforceRateLimit counting a passing request twice
EnforceRateLimitTwice(counters, keyId, adapter, action, limitPerMinute, now) ==
  LET counterKey == CounterKey(keyId, adapter, action, now)
      existing == IF counterKey \in DOMAIN counters THEN counters[counterKey] ELSE 0
  IN  IF limitPerMinute <= 0 THEN [ok |-> TRUE, counters |-> counters]
      ELSE IF RateExceeded(existing, limitPerMinute)
        THEN [ok |-> FALSE, counters |-> counters]
      ELSE [ok |-> TRUE,
            counters |-> [k \in DOMAIN counters \cup {counterKey} |->
                            IF k = counterKey THEN existing + 2 ELSE counters[k]]]

\* enforceRateLimit: the result and the counters map after the call
EnforceRateLimit(counters, keyId, adapter, action, limitPerMinute, now) ==
  LET counterKey == CounterKey(keyId, adapter, action, now)
      existing == IF counterKey \in DOMAIN counters THEN counters[counterKey] ELSE 0
  IN  IF limitPerMinute <= 0 THEN [ok |-> TRUE, counters |-> counters]
      ELSE IF RateExceeded(existing, limitPerMinute)
        THEN [ok |-> FALSE, counters |-> counters]
      ELSE [ok |-> TRUE,
            counters |-> [k \in DOMAIN counters \cup {counterKey} |->
                            IF k = counterKey THEN existing + 1 ELSE counters[k]]]

\* request bodies: {"input": {"q": "a"}}, {"input": null}, {"q": "a"}, and a
\* well-formed body longer than maxBodyKb allows
ProxyBodies ==
  { [shape |-> "input_object", length |-> 20,
     input |-> [k \in {"q"} |-> [type |-> "string", length |-> 1]]],
    [shape |-> "input_null", length |-> 14, input |-> <<>>],
    [shape |-> "no_input", length |-> 9, input |-> <<>>],
    [shape |-> "input_object", length |-> 2000,
     input |-> [k \in {"q"} |-> [type |-> "string", length |-> 1]]] }

\* JSON values as JavaScript sees them: their kind, whether they are truthy,
\* and an object's members
JsonNull == [kind |-> "null", truthy |-> FALSE]
JsonNumber(truthy) == [kind |-> "number", truthy |-> truthy]
JsonArray == [kind |-> "array", truthy |-> TRUE]
JsonObject(members) == [kind |-> "object", truthy |-> TRUE, members |-> members]

\* typeof value === "object"
TypeofObject(value) == value.kind \in {"null", "array", "object"}

\* parseJson(rawBody, null): JSON.parse, null when the text is not JSON
ParseJson(body) ==
  CASE body.shape = "not_json" -> JsonNull
    [] body.shape = "null" -> JsonNull
    [] body.shape = "array" -> JsonArray
    [] body.shape = "scalar" -> JsonNumber(TRUE)
    [] body.shape = "no_input" -> JsonObject([k \in {"q"} |-> JsonNumber(TRUE)])
    [] body.shape = "input_null" -> JsonObject([k \in {"input"} |-> JsonNull])
    [] body.shape = "input_array" -> JsonObject([k \in {"input"} |-> JsonArray])
    [] body.shape = "input_scalar" -> JsonObject([k \in {"input"} |-> JsonNumber(TRUE)])
    [] body.shape = "input_zero" -> JsonObject([k \in {"input"} |-> JsonNumber(FALSE)])
    [] body.shape = "input_object" ->
         JsonObject([k \in {"input"} |-> JsonObject(body.input)])

\* parseJson + coerceInputPayload: the input object, or null
CoerceInputPayload(body) ==
  LET parsedBody == ParseJson(body)
      input == parsedBody.members["input"]
  IN  IF ~parsedBody.truthy \/ ~TypeofObject(parsedBody) \/ parsedBody.kind = "array"
        THEN [ok |-> FALSE, input |-> <<>>]
      ELSE IF "input" \notin DOMAIN parsedBody.members
        THEN [ok |-> FALSE, input |-> <<>>]
      ELSE IF input.truthy /\ TypeofObject(input) /\ input.kind # "array"
        THEN [ok |-> TRUE, input |-> input.members]
      ELSE IF input.kind = "null"
        THEN [ok |-> TRUE, input |-> <<>>]
      ELSE [ok |-> FALSE, input |-> <<>>]

\* JSON values: a string of some length, a number that is an integer, a
\* number `value` + 1/2 ("fraction"), a boolean (1 for true).  A property
\* schema may lack
\* any of minLength, maxLength, minimum, maximum and enum.
BelowMinimum(value, schema) ==
  "minimum" \in DOMAIN schema /\ value.value < schema.minimum

AboveMaximum(value, schema) ==
  /\ "maximum" \in DOMAIN schema
  /\ IF value.type = "fraction" THEN value.value >= schema.maximum
                                ELSE value.value > schema.maximum

NotInEnum(value, schema) == "enum" \in DOMAIN schema /\ value \notin schema.enum

\* validateValueByPropertySchema; a schema object without a type (one that
\* was found on the prototype chain) passes every branch
ValueErrors(value, schema) ==
  LET enumErrors == IF NotInEnum(value, schema) THEN {"enum"} ELSE {}
      rangeErrors == (IF BelowMinimum(value, schema) THEN {"minimum"} ELSE {})
                     \cup (IF AboveMaximum(value, schema) THEN {"maximum"} ELSE {})
  IN  IF "type" \notin DOMAIN schema THEN enumErrors
      ELSE IF schema.type = "string"
        THEN IF value.type # "string" THEN {"expected_string"}
             ELSE (IF "minLength" \in DOMAIN schema /\ value.length < schema.minLength
                     THEN {"minLength"} ELSE {})
                  \cup (IF "maxLength" \in DOMAIN schema /\ value.length > schema.maxLength
                          THEN {"maxLength"} ELSE {})
                  \cup enumErrors
      ELSE IF schema.type = "integer"
        THEN IF value.type # "integer" THEN {"expected_integer"}
             ELSE rangeErrors \cup enumErrors
      ELSE IF schema.type = "number"
        THEN IF value.type \notin {"integer", "fraction"} THEN {"expected_number"}
             ELSE rangeErrors \cup enumErrors
      ELSE IF value.type # "boolean" THEN {"expected_boolean"}
      ELSE enumErrors

\* the property names every object inherits from Object.prototype
ObjectPrototypeKeys == {"constructor", "toString"}

\* `key in object`: own and inherited properties
HasProperty(object, key) == key \in DOMAIN object \cup ObjectPrototypeKeys

\* `object[key]`: the own property, else the inherited one (a function,
\* which is truthy and has neither type nor enum), else undefined
GetProperty(object, key) ==
  IF key \in DOMAIN object THEN [present |-> TRUE, value |-> object[key]]
  ELSE IF key \in ObjectPrototypeKeys THEN [present |-> TRUE, value |-> [inherited |-> TRUE]]
  ELSE NoRecord

\* validateInputWithSchema with own-property lookups only
ValidateInputWithSchemaOwn(input, schema) ==
  LET properties == IF "properties" \in DOMAIN schema THEN schema.properties ELSE <<>>
      required == IF "required" \in DOMAIN schema THEN schema.required ELSE {}
  IN  { <<k, "missing">> : k \in required \ DOMAIN input }
      \cup UNION { IF k \notin DOMAIN properties
                     THEN {<<k, "not_allowed">>}
                     ELSE {<<k, e>> : e \in ValueErrors(input[k], properties[k])} :
                   k \in DOMAIN input }

\* validateInputWithSchema: the errors, as a set
ValidateInputWithSchema(input, schema) ==
  LET properties == IF "properties" \in DOMAIN schema THEN schema.properties ELSE <<>>
      required == IF "required" \in DOMAIN schema THEN schema.required ELSE {}
      additional == "additionalProperties" \in DOMAIN schema /\ schema.additionalProperties
  IN  { <<k, "missing">> : k \in {q \in required : ~HasProperty(input, q)} }
      \cup UNION { LET propertySchema == GetProperty(properties, k)
                   IN  IF ~propertySchema.present
                         THEN IF additional THEN {} ELSE {<<k, "not_allowed">>}
                         ELSE {<<k, e>> : e \in ValueErrors(input[k], propertySchema.value)} :
                   k \in DOMAIN input }

\* getAdapterAction on the snapshot getRegistrySnapshot returned
GetAdapterAction(snapshot, adapterId, actionName) ==
  LET active == IF adapterId \in Adapters THEN snapshot.index.active[adapterId]
                ELSE NoRecord
      stored == snapshot.manifests[adapterId]
  IN  IF ~active.present \/ ~active.enabled THEN NoRecord
      ELSE IF ~stored.present THEN NoRecord
      ELSE IF actionName \notin DOMAIN stored.value.actions THEN NoRecord
      ELSE [present |-> TRUE, adapter |-> stored.value,
            action |-> stored.value.actions[actionName]]

\* the request a runtime holding `secret` signs at second `ts`
SignedRequest(adapter, action, body, ts, secret) ==
  LET method == <<"P", "O", "S", "T">>
      path == <<"/v1/adapter", adapter, action>>
  IN  [authorization |-> <<"Bearer ", "rt_1", ".", "key1">>, method |-> method,
       path |-> path, body |-> body,
       timestamp |-> [digits |-> TRUE, value |-> ts, rest |-> ""],
       bodySha256 |-> [pad |-> FALSE, prefix |-> "", hex |-> Sha256Hex(body)],
       signature |-> [pad |-> FALSE, prefix |-> "v1=",
                      hex |-> HmacSha256Hex(secret,
                                CreateCanonicalString(method, path, ts, Sha256Hex(body)))]]

IdleProxy ==
  [pc |-> "idle", id |-> 0, adapter |-> "", action |-> "", request |-> NoRecord,
   startedAt |-> 0, keyId |-> "", actionRef |-> NoRecord, input |-> <<>>,
   snapshot |-> NoRecord, loadedAtMs |-> 0, offAtStart |-> FALSE,
   status |-> 0, error |-> "", fetches |-> 0, upstream |-> ""]

\* the registry as the store holds it: the index and the active snapshots
StoredSnapshot ==
  [index |-> kvIndex,
   manifests |-> [a \in Adapters |->
                    IF kvIndex.active[a].present
                      THEN kvManifest[<<a, kvIndex.active[a].revision>>]
                      ELSE NoRecord]]

\* the handler starts: startedAt = Date.now(), `await request.text()`
ProxyStart(r, adapter, action, body, secret) ==
  /\ proxyReq[r].pc = "idle"
  /\ proxyCalls < MaxProxyCalls
  /\ proxyCalls' = proxyCalls + 1
  /\ proxyReq' = [proxyReq EXCEPT ![r] =
       [IdleProxy EXCEPT !.pc = "auth", !.id = proxyCalls + 1, !.adapter = adapter,
                         !.action = action, !.startedAt = nowMs,
                         !.offAtStart =
                            /\ ~GetAdapterAction(StoredSnapshot, adapter, action).present
                            /\ \A q \in RegSlots : regReq[q].pc = "idle",
                         !.request = SignedRequest(adapter, action, body,
                                                   nowMs \div 1000, secret)]]
  /\ UNCHANGED <<nowMs, rateCounters, outbound, admitted, registryCache, exceptProxy>>

\* authenticateRuntimeRequest against the stored runtime record
ProxyAuth(r) ==
  /\ proxyReq[r].pc = "auth"
  /\ LET req == proxyReq[r]
         runtime == RuntimeRecord(60)
         hmacSecret == ResolveSecretValue(kvVault, runtime.hmacSecretBinding)
         auth == AuthenticateRuntimeRequest(req.request, runtime, hmacSecret, nowMs)
     IN  proxyReq' = [proxyReq EXCEPT ![r] =
           IF ~auth.ok THEN Fail(req, auth.status, auth.reason)
           ELSE [req EXCEPT !.pc = "lookup", !.keyId = auth.keyId]]
  /\ UNCHANGED <<nowMs, rateCounters, proxyCalls, outbound, admitted, registryCache, exceptProxy>>

\* getRegistrySnapshot: the cached snapshot while it is younger than
\* CACHE_TTL_MS, else readIndex
ProxySnapshot(r) ==
  /\ proxyReq[r].pc = "lookup"
  /\ proxyReq' = [proxyReq EXCEPT ![r] =
       IF registryCache.index.present /\ nowMs - registryCache.loadedAtMs < CACHE_TTL_MS
         THEN [@ EXCEPT !.pc = "admit",
                        !.snapshot = [index |-> registryCache.index.value,
                                      manifests |-> registryCache.manifests]]
         ELSE [@ EXCEPT !.pc = "loadManifests", !.loadedAtMs = nowMs,
                        !.snapshot = [index |-> kvIndex,
                                      manifests |-> EmptyCache.manifests]]]
  /\ UNCHANGED <<nowMs, registryCache, rateCounters, proxyCalls, outbound, admitted,
                 exceptProxy>>

\* getRegistrySnapshot: readManifest of every active adapter, then the cache
\* is filled with what this call has read
ProxyLoadManifests(r) ==
  /\ proxyReq[r].pc = "loadManifests"
  /\ LET req == proxyReq[r]
         index == req.snapshot.index
         manifests == [a \in Adapters |->
                         IF index.active[a].present
                           THEN kvManifest[<<a, index.active[a].revision>>]
                           ELSE NoRecord]
         missing == \E a \in Adapters : index.active[a].present /\ ~manifests[a].present
     IN  IF missing
           THEN /\ proxyReq' = [proxyReq EXCEPT ![r] = Fail(req, 500, "internal_error")]
                /\ UNCHANGED registryCache
           ELSE /\ proxyReq' = [proxyReq EXCEPT
                     ![r].pc = "admit", ![r].snapshot.manifests = manifests]
                /\ registryCache' =
                     [loadedAtMs |-> req.loadedAtMs,
                      index |-> [present |-> TRUE, value |-> index],
                      manifests |-> manifests]
  /\ UNCHANGED <<nowMs, rateCounters, proxyCalls, outbound, admitted, exceptProxy>>

\* getAdapterAction and the synchronous code after it: the payload, the schema
\* validation, the body size and the rate limit
ProxyAdmit(r) ==
  /\ proxyReq[r].pc = "admit"
  /\ LET req == proxyReq[r]
         actionRef == GetAdapterAction(req.snapshot, req.adapter, req.action)
         coerced == CoerceInputPayload(req.request.body)
         limits == actionRef.action.limits
         counterKey == CounterKey(req.keyId, req.adapter, req.action, req.startedAt)
         rateLimit == EnforceRateLimit(rateCounters, req.keyId, req.adapter, req.action,
                                       limits.ratePerMinute, req.startedAt)
         log == IF counterKey \in DOMAIN admitted THEN admitted[counterKey] ELSE <<>>
         limited == IF ~rateLimit.ok THEN Fail(req, 429, "rate_limited")
                    ELSE [req EXCEPT !.pc = "build", !.actionRef = actionRef,
                                     !.input = coerced.input]
     IN  IF ~actionRef.present
           THEN /\ proxyReq' = [proxyReq EXCEPT ![r] = Fail(req, 403, "action_not_allowed")]
                /\ UNCHANGED <<rateCounters, admitted>>
         ELSE IF ~coerced.ok
           THEN /\ proxyReq' = [proxyReq EXCEPT ![r] = Fail(req, 400, "invalid_input_payload")]
                /\ UNCHANGED <<rateCounters, admitted>>
         ELSE IF ValidateInputWithSchema(coerced.input, actionRef.action.inputSchema) # {}
           THEN /\ proxyReq' = [proxyReq EXCEPT ![r] = Fail(req, 400, "invalid_input")]
                /\ UNCHANGED <<rateCounters, admitted>>
         ELSE IF req.request.body.length > limits.maxBodyKb * 1024
           THEN /\ proxyReq' = [proxyReq EXCEPT ![r] = Fail(req, 413, "body_too_large")]
                /\ UNCHANGED <<rateCounters, admitted>>
         ELSE /\ rateCounters' = rateLimit.counters
              /\ proxyReq' = [proxyReq EXCEPT ![r] = limited]
              /\ admitted' = [k \in DOMAIN admitted \cup {counterKey} |->
                   IF k = counterKey
                     THEN Append(log, [limit |-> limits.ratePerMinute,
                                       passed |-> limited.pc # "done",
                                       status |-> limited.status, error |-> limited.error])
                     ELSE admitted[k]]
  /\ UNCHANGED <<nowMs, proxyCalls, outbound, registryCache, exceptProxy>>

\* fetchImpl(url.toString(), ...) with http in place of the checked URL's scheme
FetchUrlDowngraded(url) == [url EXCEPT !.protocol = "http:"]

\* fetchImpl(url.toString(), ...): the URL the upstream request goes to
FetchUrl(url) == url

\* buildUpstreamRequest (resolveSecretValue, new URL(path, baseUrl)), the host
\* check, and the call of fetchImpl
ProxyBuild(r) ==
  /\ proxyReq[r].pc = "build"
  /\ LET req == proxyReq[r]
         adapter == req.actionRef.adapter
         url == ResolveUrl(req.actionRef.action.path, adapter.baseUrl)
     IN  IF ResolveSecretValue(kvVault, req.actionRef.action.auth.secretBinding) = ""
           THEN /\ proxyReq' = [proxyReq EXCEPT ![r] = Fail(req, 500, "internal_error")]
                /\ UNCHANGED outbound
         ELSE IF url.protocol # "https:"
                   \/ ToLowerCaseHost(url.host) \notin SeqToSet(adapter.allowedHosts)
           THEN /\ proxyReq' = [proxyReq EXCEPT ![r] = Fail(req, 403, "host_not_allowed")]
                /\ UNCHANGED outbound
         ELSE /\ outbound' = outbound \cup
                   {[id |-> req.id, adapter |-> req.adapter, url |-> FetchUrl(url),
                     attempt |-> req.fetches + 1]}
              /\ proxyReq' = [proxyReq EXCEPT ![r].pc = "fetch",
                                              ![r].fetches = req.fetches + 1]
  /\ UNCHANGED <<nowMs, rateCounters, proxyCalls, admitted, registryCache, exceptProxy>>

\* the end of the awaited fetch with the request sent again after a non-2xx
\* answer
ProxyRespondRetrying(r, upstream) ==
  /\ proxyReq[r].pc = "fetch"
  /\ proxyReq' = [proxyReq EXCEPT ![r] =
       CASE upstream = "ok" -> Succeed([@ EXCEPT !.upstream = upstream], 200)
         [] upstream = "not_ok" -> [@ EXCEPT !.pc = "build"]
         [] OTHER -> Fail([@ EXCEPT !.upstream = upstream], 500, "internal_error")]
  /\ UNCHANGED <<nowMs, rateCounters, proxyCalls, outbound, admitted, registryCache, exceptProxy>>

\* the awaited fetch ends while the timer set before it is armed: the
\* upstream answers 2xx and its body is read ("ok"), it answers non-2xx
\* ("not_ok"), the timer fires and controller.abort() makes fetch reject
\* ("timeout"), or fetch rejects on its own ("exception"); a rejection is
\* handled by the handler's catch
ProxyRespond(r, upstream) ==
  /\ proxyReq[r].pc = "fetch"
  /\ proxyReq' = [proxyReq EXCEPT ![r] =
       CASE upstream = "ok" -> Succeed([@ EXCEPT !.upstream = upstream], 200)
         [] upstream = "not_ok" -> Fail([@ EXCEPT !.upstream = upstream], 502, "upstream_error")
         [] OTHER -> Fail([@ EXCEPT !.upstream = upstream], 500, "internal_error")]
  /\ UNCHANGED <<nowMs, rateCounters, proxyCalls, outbound, admitted, registryCache, exceptProxy>>

\* fetch resolves with a 2xx response (the headers have arrived); the
\* finally block clears the timer, and the handler awaits the body
ProxyHeaders(r) ==
  /\ proxyReq[r].pc = "fetch"
  /\ proxyReq' = [proxyReq EXCEPT ![r].pc = "body", ![r].upstream = "ok"]
  /\ UNCHANGED <<nowMs, rateCounters, proxyCalls, outbound, admitted, registryCache, exceptProxy>>

\* upstreamResponse.json() or .text() settles: the body has been read, or the
\* read (or the JSON parse) throws
ProxyBody(r, read) ==
  /\ proxyReq[r].pc = "body"
  /\ proxyReq' = [proxyReq EXCEPT ![r] =
       IF read THEN Succeed(@, 200) ELSE Fail(@, 500, "internal_error")]
  /\ UNCHANGED <<nowMs, rateCounters, proxyCalls, outbound, admitted, registryCache, exceptProxy>>

ProxyReturn(r) ==
  /\ proxyReq[r].pc = "done"
  /\ proxyReq' = [proxyReq EXCEPT ![r] = IdleProxy]
  /\ UNCHANGED <<nowMs, rateCounters, proxyCalls, outbound, admitted, registryCache, exceptProxy>>

ProxyTick ==
  /\ nowMs < MaxProxyTicks * (RATE_BUCKET_MS \div 2)
  /\ nowMs' = nowMs + RATE_BUCKET_MS \div 2
  /\ UNCHANGED <<proxyVars, registryCache, exceptProxy>>

\* the requests sent: a well-formed one for the installed adapter, and the
\* same with another adapter, another signing secret or another body
ProxyInputs ==
  LET good == CHOOSE b \in ProxyBodies : b.shape = "input_object" /\ b.length <= 1024
  IN  { [adapter |-> "youtube", action |-> ActionOf("youtube"), body |-> b,
          secret |-> "hmac"] : b \in ProxyBodies }
      \cup { [adapter |-> "gdrive", action |-> ActionOf("youtube"), body |-> good,
               secret |-> "hmac"],
             [adapter |-> "youtube", action |-> ActionOf("youtube"), body |-> good,
               secret |-> "other"] }

NextProxy ==
  \/ \E r \in ProxySlots, i \in ProxyInputs :
       /\ \A q \in ProxySlots : q < r => proxyReq[q].pc # "idle"
       /\ ProxyStart(r, i.adapter, i.action, i.body, i.secret)
  \/ \E r \in ProxySlots : ProxyAuth(r)
  \/ \E r \in ProxySlots : ProxySnapshot(r)
  \/ \E r \in ProxySlots : ProxyLoadManifests(r)
  \/ \E r \in ProxySlots : ProxyAdmit(r)
  \/ \E r \in ProxySlots : ProxyBuild(r)
  \/ \E r \in ProxySlots, upstream \in {"ok", "not_ok", "timeout"} : ProxyRespond(r, upstream)
  \/ \E r \in ProxySlots : ProxyReturn(r)
  \/ ProxyTick

MaxEgressCalls == 2

\* every shape of request body: not JSON, null, an array, a number, an object
\* without "input", and "input" that is null, an array, a number, zero, an
\* object with a member, an empty object
PayloadBodies ==
  { [shape |-> sh, length |-> 14, input |-> <<>>] :
      sh \in {"not_json", "null", "array", "scalar", "no_input", "input_null",
              "input_array", "input_scalar", "input_zero", "input_object"} }
  \cup { b \in ProxyBodies : b.shape = "input_object" /\ b.length <= 1024 }

\* signed calls of the installed action with each of these bodies
NextPayload ==
  \/ \E r \in ProxySlots, b \in PayloadBodies :
       /\ proxyCalls < MaxEgressCalls
       /\ \A q \in ProxySlots : q < r => proxyReq[q].pc # "idle"
       /\ ProxyStart(r, "youtube", ActionOf("youtube"), b, "hmac")
  \/ \E r \in ProxySlots : ProxyAuth(r)
  \/ \E r \in ProxySlots : ProxySnapshot(r)
  \/ \E r \in ProxySlots : ProxyLoadManifests(r)
  \/ \E r \in ProxySlots : ProxyAdmit(r)
  \/ \E r \in ProxySlots : ProxyBuild(r)
  \/ \E r \in ProxySlots : ProxyRespond(r, "not_ok")
  \/ \E r \in ProxySlots : ProxyReturn(r)


\* the outbound call in steps: runtime calls for the installed action, each
\* upstream behaviour, the timer
NextEgress ==
  \/ \E r \in ProxySlots, i \in {j \in ProxyInputs : j.body.length <= 1024} :
       /\ proxyCalls < MaxEgressCalls
       /\ \A q \in ProxySlots : q < r => proxyReq[q].pc # "idle"
       /\ ProxyStart(r, i.adapter, i.action, i.body, i.secret)
  \/ \E r \in ProxySlots : ProxyAuth(r)
  \/ \E r \in ProxySlots : ProxySnapshot(r)
  \/ \E r \in ProxySlots : ProxyLoadManifests(r)
  \/ \E r \in ProxySlots : ProxyAdmit(r)
  \/ \E r \in ProxySlots : ProxyBuild(r)
  \/ \E r \in ProxySlots, upstream \in {"not_ok", "timeout", "exception"} :
       ProxyRespond(r, upstream)
  \/ \E r \in ProxySlots : ProxyHeaders(r)
  \/ \E r \in ProxySlots, read \in BOOLEAN : ProxyBody(r, read)
  \/ \E r \in ProxySlots : ProxyReturn(r)

\* what runs without waiting for the upstream: the handler's own steps (the
\* worker's event loop runs every continuation that is ready) and the timer
\* callback, which runs once timeoutMs has passed while the timer is armed
EgressFairness ==
  \A r \in ProxySlots :
     /\ WF_vars(ProxyAuth(r))
     /\ WF_vars(ProxySnapshot(r))
     /\ WF_vars(ProxyLoadManifests(r))
     /\ WF_vars(ProxyAdmit(r))
     /\ WF_vars(ProxyBuild(r))
     /\ WF_vars(ProxyRespond(r, "timeout"))
     /\ WF_vars(ProxyReturn(r))

\* runtime calls while an admin disables the adapter
RuntimeInputs ==
  LET good == CHOOSE b \in ProxyBodies : b.shape = "input_object" /\ b.length <= 1024
  IN  {[adapter |-> "youtube", action |-> ActionOf("youtube"), body |-> good,
        secret |-> "hmac"],
       [adapter |-> "youtube", action |-> "unknown_action", body |-> good,
        secret |-> "hmac"],
       [adapter |-> "gdrive", action |-> ActionOf("youtube"), body |-> good,
        secret |-> "hmac"]}

MaxRuntimeCalls == 2
MaxRuntimeTicks == 1

NextRuntime ==
  \/ \E r \in ProxySlots, i \in RuntimeInputs :
       /\ proxyCalls < MaxRuntimeCalls
       /\ \A q \in ProxySlots : q < r => proxyReq[q].pc # "idle"
       /\ ProxyStart(r, i.adapter, i.action, i.body, i.secret)
  \/ \E r \in ProxySlots : ProxyAuth(r)
  \/ \E r \in ProxySlots : ProxySnapshot(r)
  \/ \E r \in ProxySlots : ProxyLoadManifests(r)
  \/ \E r \in ProxySlots : ProxyAdmit(r)
  \/ \E r \in ProxySlots : ProxyBuild(r)
  \/ \E r \in ProxySlots : ProxyRespond(r, "ok")
  \/ \E r \in ProxySlots : ProxyReturn(r)
  \/ ToggleRead(1, "youtube", FALSE)
  \/ \E r \in RegSlots : ToggleWrite(r)
  \/ \E r \in RegSlots : RegReturn(r)
  \/ (nowMs < MaxRuntimeTicks * (RATE_BUCKET_MS \div 2) /\ ProxyTick)

InitVerify == authCall = NoRecord

InitProxyState ==
  /\ rateCounters = <<>>
  /\ proxyReq = [r \in ProxySlots |-> IdleProxy]
  /\ proxyCalls = 0
  /\ outbound = {}
  /\ admitted = <<>>

\* the registry after youtube revision 1 has been applied
InstalledRegistry(rate) ==
  LET manifest == ValidateAdapterManifest(GoodManifest("youtube", 1, rate)).manifest
  IN  /\ kvIndex = [EmptyIndex EXCEPT !.active["youtube"] =
                      [present |-> TRUE, revision |-> 1, enabled |-> TRUE, updatedAt |-> 0]]
      /\ kvManifest = [k \in Adapters \X Revisions |->
                         IF k = <<"youtube", 1>> THEN [present |-> TRUE, value |-> manifest]
                         ELSE NoRecord]
      /\ kvProposal = [p \in ProposalIds |-> NoRecord]
      /\ kvAudit = <<>>
      /\ nextProposalId = 1
      /\ regReq = [r \in RegSlots |-> IdleReg]
      /\ regCalls = 1
      /\ registryCache = EmptyCache

(***************************************************************************)
(* Admin sessions: requireAdminSession, rotateSession, logoutAdminSession  *)
(* and the router's gate in front of /v1/admin/*.  Session ids and CSRF    *)
(* tokens are random, so every new one is fresh: the n-th session has id n *)
(* and token n.  Times are in milliseconds.                                *)
(***************************************************************************)
SESSION_ABSOLUTE_TTL_SECONDS == 28800
SESSION_IDLE_TTL_SECONDS == 1800
SESSION_ROTATE_INTERVAL_MS == 900000

MaxSids == 4
MaxAdminReqs == 2
MaxAdminCalls == 3
MaxSessionTicks == 3
CookieWindow == 2

SessionIds == 1..MaxSids
AdminSlots == 1..MaxAdminReqs

\* the record loginAdminUser builds at `now`
NewSession(sid, now) ==
  [present |-> TRUE, sessionId |-> sid, csrfToken |-> sid, createdAt |-> now,
   lastSeenAt |-> now, rotatedAt |-> now,
   expiresAt |-> now + SESSION_ABSOLUTE_TTL_SECONDS * 1000,
   idleExpiresAt |-> now + SESSION_IDLE_TTL_SECONDS * 1000, kvExpiresAtMs |-> 0]

\* writeSession at `now`: kv.put with expirationTtl max(60, floor((expires - now) / 1000))
WriteSession(store, session, now) ==
  [store EXCEPT ![session.sessionId] =
     [session EXCEPT !.kvExpiresAtMs =
        now + Max(60, (session.expiresAt - now) \div 1000) * 1000]]

\* kv.get: a key past its expiration is not returned
KvGetSession(store, sid, now) ==
  IF sid \in SessionIds /\ store[sid].present /\ now < store[sid].kvExpiresAtMs
    THEN store[sid] ELSE NoRecord

\* the expiry test with the idle deadline left out
SessionExpiredAbsoluteOnly(session, now) == now > session.expiresAt

\* requireAdminSession: nowMs > session.expiresAt || nowMs > session.idleExpiresAt
SessionExpired(session, now) == now > session.expiresAt \/ now > session.idleExpiresAt

\* requireAdmin with the CSRF check on POST only
RequireCsrfPostOnly(method) == method = "POST"

\* requireAdmin: requireCsrf
RequireCsrf(method) == method \notin {"GET", "HEAD", "OPTIONS"}

\* the router: which handler a request under /v1/admin/ reaches
Dispatch(method, route) ==
  IF method = "POST" /\ route = "session/logout" THEN "logout"
  ELSE IF method = "GET" /\ route = "session/me" THEN "me"
  ELSE "gated"

\* what the handler behind the gate does with boundary state
GatedEffect(method, route) ==
  IF method = "GET" /\ route = "adapters" THEN "read"
  ELSE IF method = "POST" /\ route = "adapters/apply" THEN "write"
  ELSE IF method \in {"PUT", "DELETE"} /\ route = "secrets/KEY" THEN "write"
  ELSE "not_found"

IdleAdmin ==
  [pc |-> "idle", method |-> "", route |-> "", cookie |-> 0, csrf |-> 0,
   session |-> NoRecord, now |-> 0, found |-> FALSE, unexpired |-> FALSE,
   csrfOk |-> FALSE, idleFor |-> 0, age |-> 0, retiredAtStart |-> FALSE,
   deleted |-> FALSE, status |-> 0, error |-> "", setCookie |-> 0]

\* requireAdminSession up to its first write: the cookie, kv.get, and the
\* checks made on the record at nowMs = Date.now()
AdminGet(r, method, route, cookie, csrf) ==
  /\ adminReq[r].pc = "idle"
  /\ adminCalls < MaxAdminCalls
  /\ adminCalls' = adminCalls + 1
  /\ Dispatch(method, route) # "logout"
  /\ LET session == KvGetSession(kvSession, cookie, nowMs)
         requireCsrf == Dispatch(method, route) = "gated" /\ RequireCsrf(method)
         expired == SessionExpired(session, nowMs)
         req == [IdleAdmin EXCEPT
                   !.method = method, !.route = route, !.cookie = cookie, !.csrf = csrf,
                   !.session = session, !.now = nowMs, !.found = session.present,
                   !.unexpired = session.present /\ ~expired,
                   !.csrfOk = session.present /\ csrf = session.csrfToken,
                   !.idleFor = IF cookie \in SessionIds THEN nowMs - lastUse[cookie] ELSE 0,
                   !.age = IF cookie \in SessionIds THEN nowMs - loginAt[cookie] ELSE 0,
                   !.retiredAtStart = cookie \in retired]
         answered ==
           IF cookie = 0 THEN Fail(req, 401, "missing_admin_session")
           ELSE IF ~session.present THEN Fail(req, 401, "invalid_admin_session")
           ELSE IF expired THEN [req EXCEPT !.pc = "expireDelete"]
           ELSE IF requireCsrf /\ (csrf = 0 \/ csrf # session.csrfToken)
             THEN Fail(req, 403, "invalid_csrf_token")
           ELSE IF nowMs - session.rotatedAt >= SESSION_ROTATE_INTERVAL_MS
             THEN [req EXCEPT !.pc = "rotateDelete"]
           ELSE [req EXCEPT !.pc = "touchPut"]
     IN  /\ adminReq' = [adminReq EXCEPT ![r] = answered]
         /\ lastUse' = IF answered.pc \in {"rotateDelete", "touchPut"}
                         THEN [lastUse EXCEPT ![cookie] = Max(@, nowMs)]
                         ELSE lastUse
  /\ UNCHANGED <<nowMs, kvSession, nextSid, loginAt, retired, boundaryLog, loginVars, exceptAdmin>>

\* the expired branch: kv.delete, then 401 expired_admin_session
AdminExpireDelete(r) ==
  /\ adminReq[r].pc = "expireDelete"
  /\ kvSession' = [kvSession EXCEPT ![adminReq[r].cookie] = NoRecord]
  /\ adminReq' = [adminReq EXCEPT ![r] =
       [Fail(@, 401, "expired_admin_session") EXCEPT
          !.deleted = TRUE, !.setCookie = -1]]
  /\ UNCHANGED <<nowMs, nextSid, lastUse, loginAt, retired, boundaryLog, adminCalls, loginVars, exceptAdmin>>

\* rotateSession: kv.delete of the old record
AdminRotateDelete(r) ==
  /\ adminReq[r].pc = "rotateDelete"
  /\ kvSession' = [kvSession EXCEPT ![adminReq[r].cookie] = NoRecord]
  /\ adminReq' = [adminReq EXCEPT ![r].pc = "rotatePut"]
  /\ UNCHANGED <<nowMs, nextSid, lastUse, loginAt, retired, boundaryLog, adminCalls, loginVars, exceptAdmin>>

\* rotateSession with a fresh absolute deadline for the new record
RotatedSessionRenewed(session, sid, now) ==
  [session EXCEPT
     !.sessionId = sid, !.csrfToken = sid,
     !.rotatedAt = now, !.lastSeenAt = now,
     !.expiresAt = now + SESSION_ABSOLUTE_TTL_SECONDS * 1000,
     !.idleExpiresAt = now + SESSION_IDLE_TTL_SECONDS * 1000]

\* rotateSession's next record: {...session, sessionId, csrfToken, rotatedAt,
\* updatedAt, lastSeenAt, idleExpiresAt}
RotatedSession(session, sid, now) ==
  [session EXCEPT
     !.sessionId = sid, !.csrfToken = sid,
     !.rotatedAt = now, !.lastSeenAt = now,
     !.idleExpiresAt = now + SESSION_IDLE_TTL_SECONDS * 1000]

\* rotateSession: the new id and token, writeSession of the new record
AdminRotatePut(r) ==
  /\ adminReq[r].pc = "rotatePut"
  /\ nextSid <= MaxSids
  /\ LET req == adminReq[r]
         next == RotatedSession(req.session, nextSid, req.now)
     IN  /\ kvSession' = WriteSession(kvSession, next, nowMs)
         /\ adminReq' = [adminReq EXCEPT ![r].pc = "handler", ![r].session = next,
                                         ![r].setCookie = nextSid]
         /\ lastUse' = [lastUse EXCEPT ![nextSid] = req.now]
         /\ loginAt' = [loginAt EXCEPT ![nextSid] = loginAt[req.cookie]]
  /\ nextSid' = nextSid + 1
  /\ UNCHANGED <<nowMs, retired, boundaryLog, adminCalls, loginVars, exceptAdmin>>

\* the touch: writeSession of the record read earlier with lastSeenAt and
\* idleExpiresAt moved to the time of the check
AdminTouchPut(r) ==
  /\ adminReq[r].pc = "touchPut"
  /\ LET req == adminReq[r]
         updated == [req.session EXCEPT
                       !.lastSeenAt = req.now,
                       !.idleExpiresAt = req.now + SESSION_IDLE_TTL_SECONDS * 1000]
     IN  /\ kvSession' = WriteSession(kvSession, updated, nowMs)
         /\ adminReq' = [adminReq EXCEPT ![r].pc = "handler", ![r].session = updated]
  /\ UNCHANGED <<nowMs, nextSid, lastUse, loginAt, retired, boundaryLog, adminCalls, loginVars, exceptAdmin>>

\* the handler a request reaches once requireAdminSession has let it through
AdminHandle(r) ==
  /\ adminReq[r].pc = "handler"
  /\ LET req == adminReq[r]
         effect == GatedEffect(req.method, req.route)
     IN  IF Dispatch(req.method, req.route) = "me"
           THEN /\ adminReq' = [adminReq EXCEPT ![r] = Succeed(req, 200)]
                /\ UNCHANGED boundaryLog
         ELSE IF effect = "not_found"
           THEN /\ adminReq' = [adminReq EXCEPT ![r] = Fail(req, 404, "not_found")]
                /\ UNCHANGED boundaryLog
         ELSE /\ adminReq' = [adminReq EXCEPT ![r] = Succeed(req, 200)]
              /\ boundaryLog' = boundaryLog \cup
                   {[method |-> req.method, route |-> req.route, effect |-> effect,
                     found |-> req.found, unexpired |-> req.unexpired,
                     csrfOk |-> req.csrfOk]}
  /\ UNCHANGED <<nowMs, kvSession, nextSid, lastUse, loginAt, retired, adminCalls, loginVars, exceptAdmin>>

\* logoutAdminSession: kv.delete of the cookie's record, always 200
AdminLogout(r, cookie) ==
  /\ adminReq[r].pc = "idle"
  /\ adminCalls < MaxAdminCalls
  /\ adminCalls' = adminCalls + 1
  /\ kvSession' = IF cookie \in SessionIds
                    THEN [kvSession EXCEPT ![cookie] = NoRecord] ELSE kvSession
  /\ adminReq' = [adminReq EXCEPT ![r] =
       [Succeed(IdleAdmin, 200) EXCEPT !.method = "POST", !.route = "session/logout",
                                       !.cookie = cookie, !.setCookie = -1]]
  /\ UNCHANGED <<nowMs, nextSid, lastUse, loginAt, retired, boundaryLog, loginVars, exceptAdmin>>

\* the response reaches the browser; a rotated cookie replaces the old one
AdminReturn(r) ==
  /\ adminReq[r].pc = "done"
  /\ retired' = IF adminReq[r].setCookie > 0
                  THEN retired \cup {adminReq[r].cookie} ELSE retired
  /\ adminReq' = [adminReq EXCEPT ![r] = IdleAdmin]
  /\ UNCHANGED <<nowMs, kvSession, nextSid, lastUse, loginAt, boundaryLog, adminCalls, loginVars, exceptAdmin>>

\* the logout's response reaches the browser: from here on the logout of the
\* cookie's session has returned
LogoutReturn(r) ==
  /\ adminReq[r].pc = "done" /\ adminReq[r].route = "session/logout"
  /\ loggedOut' = loggedOut \cup ({adminReq[r].cookie} \cap SessionIds)
  /\ adminReq' = [adminReq EXCEPT ![r] = IdleAdmin]
  /\ UNCHANGED <<nowMs, kvSession, nextSid, lastUse, loginAt, retired, boundaryLog,
                 adminCalls, loginVars, coreVars, bootVars, vaultVars, rotateVars,
                 secretsVars, resolverVars, schemaCall, genReq>>

\* the model starts at the login or half an hour before the absolute expiry
SessionStarts == {0, 30 * SESSION_ROTATE_INTERVAL_MS}

SessionTick ==
  /\ \E start \in SessionStarts :
       start <= nowMs /\ nowMs < start + MaxSessionTicks * SESSION_ROTATE_INTERVAL_MS
  /\ nowMs' = nowMs + SESSION_ROTATE_INTERVAL_MS
  /\ UNCHANGED <<sessionVars, loginVars, exceptAdmin>>

\* the cookies a browser may still hold: none, or one of the latest ids
Cookies == {0} \cup {s \in SessionIds : s < nextSid /\ s + CookieWindow >= nextSid}

\* requests take the first free slot
FreeSlot(r) == adminReq[r].pc = "idle" /\ \A q \in AdminSlots : q < r => adminReq[q].pc # "idle"

\* method, route, cookie and x-pincer-csrf header (0: none) of the requests sent
AdminInputs ==
  {<<"GET", "adapters", 0, 0>>} \cup
  UNION {{<<"GET", "adapters", c, 0>>, <<"GET", "session/me", c, 0>>,
          <<"PUT", "secrets/KEY", c, 0>>, <<"PUT", "secrets/KEY", c, c>>,
          <<"POST", "adapters/apply", c, c>>, <<"GET", "unknown", c, 0>>} :
         c \in Cookies \ {0}}

NextSession ==
  \/ \E r \in AdminSlots : \E i \in AdminInputs :
       FreeSlot(r) /\ AdminGet(r, i[1], i[2], i[3], i[4])
  \/ \E r \in AdminSlots : AdminExpireDelete(r)
  \/ \E r \in AdminSlots : AdminRotateDelete(r)
  \/ \E r \in AdminSlots : AdminRotatePut(r)
  \/ \E r \in AdminSlots : AdminTouchPut(r)
  \/ \E r \in AdminSlots : AdminHandle(r)
  \/ \E r \in AdminSlots : \E cookie \in Cookies : FreeSlot(r) /\ AdminLogout(r, cookie)
  \/ \E r \in AdminSlots : AdminReturn(r)
  \/ SessionTick

\* requests of a logged-in admin and logouts, side by side
NextLogout ==
  \/ \E r \in AdminSlots, c \in Cookies \ {0} :
       FreeSlot(r) /\ AdminGet(r, "GET", "session/me", c, 0)
  \/ \E r \in AdminSlots : AdminTouchPut(r)
  \/ \E r \in AdminSlots : AdminHandle(r)
  \/ \E r \in AdminSlots : \E cookie \in Cookies \ {0} : FreeSlot(r) /\ AdminLogout(r, cookie)
  \/ \E r \in AdminSlots : LogoutReturn(r)
  \/ \E r \in AdminSlots : adminReq[r].route # "session/logout" /\ AdminReturn(r)

\* no admin has logged in
InitNoSession ==
  /\ kvSession = [s \in SessionIds |-> NoRecord]
  /\ nextSid = 1
  /\ adminReq = [r \in AdminSlots |-> IdleAdmin]
  /\ lastUse = [s \in SessionIds |-> 0]
  /\ loginAt = [s \in SessionIds |-> 0]
  /\ retired = {}
  /\ boundaryLog = {}
  /\ adminCalls = 0

\* the admin logged in at time 0 and the session was last rotated at `now`
LoggedIn(now) ==
  /\ kvSession = WriteSession([s \in SessionIds |-> NoRecord],
                   [NewSession(1, 0) EXCEPT
                      !.rotatedAt = now, !.lastSeenAt = now,
                      !.idleExpiresAt = now + SESSION_IDLE_TTL_SECONDS * 1000], now)
  /\ nextSid = 2
  /\ adminReq = [r \in AdminSlots |-> IdleAdmin]
  /\ lastUse = [s \in SessionIds |-> IF s = 1 THEN now ELSE 0]
  /\ loginAt = [s \in SessionIds |-> 0]
  /\ retired = {}
  /\ boundaryLog = {}
  /\ adminCalls = 0

(***************************************************************************)
(* Admin login: loginAdminUser with readLoginState, trackLoginFailure and  *)
(* clearLoginState.  Every request comes from one client (one value of     *)
(* cf-connecting-ip), so a login state is keyed by the username.           *)
(***************************************************************************)
LOGIN_LOCK_THRESHOLD == 5
LOGIN_LOCK_MAX_SECONDS == 900

MaxLoginReqs == 2
MaxLoginCalls == 4
MaxLoginTicks == 2
MaxPriorFailures == 3

LoginSlots == 1..MaxLoginReqs
Usernames == {"admin", "guest"}
Passwords == {"right", "wrong"}

\* hashPassword: PBKDF2 of the password under the user's salt
HashPassword(password, saltHex) == <<"pbkdf2", password, saltHex>>

\* the record bootstrapAdminUser stored
AdminUser ==
  [present |-> TRUE, username |-> "admin", passwordSaltHex |-> "salt",
   passwordHashHex |-> HashPassword("right", "salt")]

\* parseLoginState: a missing entry reads as no failures and no lock
ParseLoginState(raw) ==
  IF raw.present THEN raw ELSE [present |-> TRUE, failedCount |-> 0, lockUntilMs |-> 0]

RECURSIVE Pow2(_)
Pow2(n) == IF n = 0 THEN 1 ELSE 2 * Pow2(n - 1)

\* the lock with the threshold counted one failure late
LockSecondsLate(nextCount) ==
  IF nextCount > LOGIN_LOCK_THRESHOLD
    THEN Min(LOGIN_LOCK_MAX_SECONDS, 30 * Pow2(nextCount - LOGIN_LOCK_THRESHOLD))
    ELSE 0

\* trackLoginFailure: lockSeconds for the failure count reached
LockSeconds(nextCount) ==
  IF nextCount >= LOGIN_LOCK_THRESHOLD
    THEN Min(LOGIN_LOCK_MAX_SECONDS, 30 * Pow2(nextCount - LOGIN_LOCK_THRESHOLD))
    ELSE 0

IdleLogin ==
  [pc |-> "idle", username |-> "", password |-> "", now |-> 0,
   state |-> NoRecord, priorFailures |-> 0, priorAt |-> 0,
   counted |-> 0, ordinal |-> 0, raced |-> FALSE,
   status |-> 0, error |-> "", retryAfterSeconds |-> 0]

\* loginAdminUser: nowMs = Date.now(), readLoginState and the lock test
LoginStart(r, username, password) ==
  /\ loginReq[r].pc = "idle"
  /\ \A q \in LoginSlots : q < r => loginReq[q].pc # "idle"
  /\ loginCalls < MaxLoginCalls
  /\ loginCalls' = loginCalls + 1
  /\ LET lockState == ParseLoginState(kvLogin[username])
         req == [IdleLogin EXCEPT
                   !.username = username, !.password = password, !.now = nowMs,
                   !.priorFailures = failures[username].n,
                   !.priorAt = failures[username].at]
     IN  loginReq' = [loginReq EXCEPT ![r] =
           IF lockState.lockUntilMs > nowMs
             THEN [Fail(req, 429, "login_locked") EXCEPT
                     !.retryAfterSeconds =
                        Max(1, (lockState.lockUntilMs - nowMs + 999) \div 1000)]
             ELSE [req EXCEPT !.pc = "getUser"]]
  /\ UNCHANGED <<nowMs, kvAdminUser, kvLogin, failures, sessionVars, exceptAdmin>>

\* getAdminUser and the comparison of username and password hash
LoginGetUser(r) ==
  /\ loginReq[r].pc = "getUser"
  /\ LET req == loginReq[r]
         user == kvAdminUser
         ok == /\ user.present
               /\ ConstantTimeEqual(user.username, req.username)
               /\ ConstantTimeEqual(HashPassword(req.password, user.passwordSaltHex),
                                    user.passwordHashHex)
     IN  loginReq' = [loginReq EXCEPT ![r].pc = IF ok THEN "clear" ELSE "trackGet"]
  /\ UNCHANGED <<nowMs, kvAdminUser, kvLogin, failures, loginCalls, sessionVars, exceptAdmin>>

\* trackLoginFailure: kv.get of the login state
LoginTrackGet(r) ==
  /\ loginReq[r].pc = "trackGet"
  /\ loginReq' = [loginReq EXCEPT
       ![r].pc = "trackPut",
       ![r].state = ParseLoginState(kvLogin[loginReq[r].username])]
  /\ UNCHANGED <<nowMs, kvAdminUser, kvLogin, failures, loginCalls, sessionVars, exceptAdmin>>

\* trackLoginFailure: kv.put of the next state, then the 401 or 429 answer
LoginTrackPut(r) ==
  /\ loginReq[r].pc = "trackPut"
  /\ LET req == loginReq[r]
         nextCount == req.state.failedCount + 1
         lockSeconds == LockSeconds(nextCount)
         raced == \/ failures[req.username].raced
                  \/ ParseLoginState(kvLogin[req.username]) # req.state
     IN  /\ kvLogin' = [kvLogin EXCEPT ![req.username] =
              [present |-> TRUE, failedCount |-> nextCount,
               lockUntilMs |-> IF lockSeconds > 0 THEN req.now + lockSeconds * 1000 ELSE 0]]
         /\ loginReq' = [loginReq EXCEPT ![r] =
              [(IF lockSeconds > 0 THEN Fail(req, 429, "login_locked")
                                   ELSE Fail(req, 401, "invalid_credentials"))
                 EXCEPT !.retryAfterSeconds = lockSeconds,
                        !.counted = nextCount,
                        !.ordinal = failures[req.username].n + 1,
                        !.raced = raced]]
         /\ failures' = [failures EXCEPT ![req.username] =
              [n |-> @.n + 1, at |-> Max(@.at, req.now),
               raced |-> raced]]
  /\ UNCHANGED <<nowMs, kvAdminUser, loginCalls, sessionVars, exceptAdmin>>

\* clearLoginState: kv.delete of the login state
LoginClear(r) ==
  /\ loginReq[r].pc = "clear"
  /\ kvLogin' = [kvLogin EXCEPT ![loginReq[r].username] = NoRecord]
  /\ failures' = [failures EXCEPT ![loginReq[r].username] =
       [n |-> 0, at |-> 0, raced |-> FALSE]]
  /\ loginReq' = [loginReq EXCEPT ![r].pc = "writeSession"]
  /\ UNCHANGED <<nowMs, kvAdminUser, loginCalls, sessionVars, exceptAdmin>>

\* the new session and its writeSession, then the 200 answer
LoginWriteSession(r) ==
  /\ loginReq[r].pc = "writeSession"
  /\ nextSid <= MaxSids
  /\ kvSession' = WriteSession(kvSession, NewSession(nextSid, loginReq[r].now), nowMs)
  /\ lastUse' = [lastUse EXCEPT ![nextSid] = loginReq[r].now]
  /\ loginAt' = [loginAt EXCEPT ![nextSid] = loginReq[r].now]
  /\ nextSid' = nextSid + 1
  /\ loginReq' = [loginReq EXCEPT ![r] = Succeed(@, 200)]
  /\ UNCHANGED <<nowMs, adminReq, retired, boundaryLog, adminCalls, kvAdminUser, kvLogin,
                 failures, loginCalls, exceptAdmin>>

LoginReturn(r) ==
  /\ loginReq[r].pc = "done"
  /\ loginReq' = [loginReq EXCEPT ![r] = IdleLogin]
  /\ UNCHANGED <<nowMs, kvAdminUser, kvLogin, failures, loginCalls, sessionVars, exceptAdmin>>

\* half a minute passes
LoginTick ==
  /\ nowMs < MaxLoginTicks * 30000
  /\ nowMs' = nowMs + 30000
  /\ UNCHANGED <<sessionVars, loginVars, exceptAdmin>>

NextLogin ==
  \/ \E r \in LoginSlots : \E u \in Usernames : \E p \in Passwords : LoginStart(r, u, p)
  \/ \E r \in LoginSlots : LoginGetUser(r)
  \/ \E r \in LoginSlots : LoginTrackGet(r)
  \/ \E r \in LoginSlots : LoginTrackPut(r)
  \/ \E r \in LoginSlots : LoginClear(r)
  \/ \E r \in LoginSlots : LoginWriteSession(r)
  \/ \E r \in LoginSlots : LoginReturn(r)
  \/ LoginTick

\* the admin user exists; `prior` wrong passwords for it have been answered 401
LoginState(prior) ==
  /\ kvAdminUser = AdminUser
  /\ kvLogin = [u \in Usernames |->
       IF u = "admin" /\ prior > 0
         THEN [present |-> TRUE, failedCount |-> prior, lockUntilMs |-> 0]
         ELSE NoRecord]
  /\ loginReq = [r \in LoginSlots |-> IdleLogin]
  /\ failures = [u \in Usernames |->
       [n |-> IF u = "admin" THEN prior ELSE 0, at |-> 0, raced |-> FALSE]]
  /\ loginCalls = 0

(***************************************************************************)
(* Admin bootstrap: bootstrapAdminUser.                                    *)
(***************************************************************************)
MaxBootReqs == 2
MaxBootCalls == 3

BootSlots == 1..MaxBootReqs

\* env.PINCER_BOOTSTRAP_TOKEN
BootstrapToken == <<"t", "o", "p">>

BootTokens == {BootstrapToken, <<" ", "t", "o", "p">>, <<"p", "o", "t">>, <<>>}

\* usernames after normalizeUsername, with the number of their characters,
\* and passwords with theirs
BootUsernames == {[name |-> "admin", length |-> 5], [name |-> "root", length |-> 4],
                  [name |-> "ab", length |-> 2]}
BootPasswords == {[text |-> "right", length |-> 14], [text |-> "short", length |-> 5]}

\* /^[A-Za-z0-9._-]{3,64}$/ on a name of these characters
IsValidUsername(username) == username.length >= 3 /\ username.length <= 64

IdleBoot ==
  [pc |-> "idle", token |-> <<>>, username |-> "", password |-> "",
   status |-> 0, error |-> "", existedAtStart |-> FALSE]

\* bootstrapAdminUser up to hashPassword: getAdminUser and the checks of the
\* token, the username and the password
BootstrapGet(r, token, username, password) ==
  /\ bootReq[r].pc = "idle"
  /\ \A q \in BootSlots : q < r => bootReq[q].pc # "idle"
  /\ bootCalls < MaxBootCalls
  /\ bootCalls' = bootCalls + 1
  /\ LET req == [IdleBoot EXCEPT !.token = token, !.username = username.name,
                                 !.password = password.text,
                                 !.existedAtStart = kvAdminUser.present]
         expectedToken == Trim(BootstrapToken)
         providedToken == Trim(token)
     IN  bootReq' = [bootReq EXCEPT ![r] =
           IF kvAdminUser.present THEN Fail(req, 409, "admin_already_initialized")
           ELSE IF Len(expectedToken) = 0 \/ ~ConstantTimeEqual(expectedToken, providedToken)
             THEN Fail(req, 401, "invalid_bootstrap_token")
           ELSE IF ~IsValidUsername(username) THEN Fail(req, 400, "invalid_username")
           ELSE IF password.length < 12 THEN Fail(req, 400, "invalid_password")
           ELSE [req EXCEPT !.pc = "put"]]
  /\ UNCHANGED <<nowMs, bootOk, loginVars, sessionVars, coreVars, vaultVars, rotateVars, secretsVars, laterVars>>

\* the rest of bootstrapAdminUser: the salt, hashPassword, kv.put of the
\* record, and the 200 answer
BootstrapPut(r) ==
  /\ bootReq[r].pc = "put"
  /\ LET req == bootReq[r]
         record == [present |-> TRUE, username |-> req.username,
                    passwordSaltHex |-> "salt",
                    passwordHashHex |-> HashPassword(req.password, "salt")]
     IN  /\ kvAdminUser' = record
         /\ bootOk' = Append(bootOk, record)
         /\ bootReq' = [bootReq EXCEPT ![r] = Succeed(req, 200)]
  /\ UNCHANGED <<nowMs, bootCalls, kvLogin, loginReq, failures, loginCalls, sessionVars,
                 coreVars, vaultVars, rotateVars, secretsVars, laterVars>>

BootstrapReturn(r) ==
  /\ bootReq[r].pc = "done"
  /\ bootReq' = [bootReq EXCEPT ![r] = IdleBoot]
  /\ UNCHANGED <<nowMs, bootCalls, bootOk, loginVars, sessionVars, coreVars, vaultVars, rotateVars, secretsVars, laterVars>>

NextBootstrap ==
  \/ \E r \in BootSlots : \E token \in BootTokens : \E username \in BootUsernames :
       \E password \in BootPasswords : BootstrapGet(r, token, username, password)
  \/ \E r \in BootSlots : BootstrapPut(r)
  \/ \E r \in BootSlots : BootstrapReturn(r)

InitNoBootstrap ==
  /\ bootReq = [r \in BootSlots |-> IdleBoot]
  /\ bootCalls = 0
  /\ bootOk = <<>>

(***************************************************************************)
(* Runtime key rotation: POST /v1/admin/runtime/rotate (index.ts), the     *)
(* runtime record and its isolate-local cache (config.ts), and runtime     *)
(* requests authenticated while rotations happen.  Credentials are         *)
(* numbered by generation; generation 1 is the first setup's.              *)
(***************************************************************************)
MaxGens == 3
MaxRotCalls == 2
MaxRtCalls == 3
MaxRotateTicks == 3

CONFIG_CACHE_TTL_MS == 10000

Gens == 1..MaxGens

\* what randomHex returns for the n-th rotation
KeyIds == <<"rt_1", "rt_2", "rt_3">>
KeySecrets == <<"key1", "key2", "key3">>
HmacSecrets == <<"hmac", "hmac2", "hmac3">>

\* the runtime:active record of generation g
RuntimeRecordOf(g, updatedAt) ==
  [present |-> TRUE, id |-> KeyIds[g], keyHash |-> Sha256Hex(KeySecrets[g]),
   hmacSecretBinding |-> "PINCER_HMAC_SECRET_ACTIVE",
   keySecretBinding |-> "PINCER_RUNTIME_KEY_SECRET_ACTIVE",
   skewSeconds |-> 60, updatedAt |-> updatedAt]

EmptyConfigCache == [loadedAtMs |-> 0, snapshot |-> NoRecord]

\* getConfigSnapshot's test of the cache
ConfigCacheFresh ==
  configCache.snapshot.present /\ nowMs - configCache.loadedAtMs < CONFIG_CACHE_TTL_MS

IdleRot ==
  [pc |-> "idle", runtime |-> NoRecord, loadedAtMs |-> 0, gen |-> 0, older |-> {},
   status |-> 0]

IdleRt ==
  [pc |-> "idle", gen |-> 0, request |-> NoRecord, runtime |-> NoRecord,
   loadedAtMs |-> 0, revokedAtStart |-> FALSE, status |-> 0, reason |-> ""]

\* ---- POST /v1/admin/runtime/rotate ----

\* the values minted once getRuntimeRecord has returned
Minted(req, runtime) ==
  [req EXCEPT !.pc = "putKeySecret", !.runtime = runtime, !.gen = nextGen]

\* getRuntimeRecord: the cached snapshot while it is fresh, else kv.get
RotateStart ==
  /\ rotReq.pc = "idle"
  /\ rotCalls < MaxRotCalls
  /\ nextGen <= MaxGens
  /\ rotCalls' = rotCalls + 1
  /\ LET req == [IdleRot EXCEPT !.older = 1..(nextGen - 1), !.loadedAtMs = nowMs]
     IN  IF ConfigCacheFresh
           THEN /\ rotReq' = Minted(req, configCache.snapshot)
                /\ nextGen' = nextGen + 1
           ELSE /\ rotReq' = [req EXCEPT !.pc = "get"]
                /\ UNCHANGED nextGen
  /\ UNCHANGED <<nowMs, kvVault, kvRuntime, configCache, rtReq, revoked, rtCalls,
                 outsideRotate>>

\* kv.get("runtime:active")
RotateGet ==
  /\ rotReq.pc = "get"
  /\ rotReq' = [rotReq EXCEPT !.pc = "fill", !.runtime = kvRuntime]
  /\ UNCHANGED <<nowMs, kvVault, kvRuntime, configCache, rtReq, nextGen, revoked, rotCalls,
                 rtCalls, outsideRotate>>

\* the other reads of getConfigSnapshot have returned: the cache is filled
\* with the time the call started, and the new credentials are minted
RotateFill ==
  /\ rotReq.pc = "fill"
  /\ configCache' = [loadedAtMs |-> rotReq.loadedAtMs, snapshot |-> rotReq.runtime]
  /\ rotReq' = Minted(rotReq, rotReq.runtime)
  /\ nextGen' = nextGen + 1
  /\ UNCHANGED <<nowMs, kvVault, kvRuntime, rtReq, revoked, rotCalls, rtCalls,
                 outsideRotate>>

\* putVaultSecret(runtime.keySecretBinding, nextRuntimeKeySecret)
RotatePutKeySecret ==
  /\ rotReq.pc = "putKeySecret"
  /\ kvVault' = [kvVault EXCEPT ![rotReq.runtime.keySecretBinding] =
       VaultRecord(VaultKek, rotReq.gen, KeySecrets[rotReq.gen], nowMs, "admin")]
  /\ rotReq' = [rotReq EXCEPT !.pc = "putHmacSecret"]
  /\ UNCHANGED <<nowMs, kvRuntime, configCache, rtReq, nextGen, revoked, rotCalls, rtCalls,
                 outsideRotate>>

\* putVaultSecret(runtime.hmacSecretBinding, nextRuntimeHmacSecret)
RotatePutHmacSecret ==
  /\ rotReq.pc = "putHmacSecret"
  /\ kvVault' = [kvVault EXCEPT ![rotReq.runtime.hmacSecretBinding] =
       VaultRecord(VaultKek, rotReq.gen, HmacSecrets[rotReq.gen], nowMs, "admin")]
  /\ rotReq' = [rotReq EXCEPT !.pc = "putRecord"]
  /\ UNCHANGED <<nowMs, kvRuntime, configCache, rtReq, nextGen, revoked, rotCalls, rtCalls,
                 outsideRotate>>

\* kv.put("runtime:active", nextRuntime) and the 200 response
RotatePutRecord ==
  /\ rotReq.pc = "putRecord"
  /\ kvRuntime' = RuntimeRecordOf(rotReq.gen, nowMs)
  /\ rotReq' = [rotReq EXCEPT !.pc = "done", !.status = 200]
  /\ UNCHANGED <<nowMs, kvVault, configCache, rtReq, nextGen, revoked, rotCalls, rtCalls,
                 outsideRotate>>

\* the response has reached the admin: the credentials that existed when the
\* call started are the previous ones from here on
RotateReturn ==
  /\ rotReq.pc = "done"
  /\ revoked' = revoked \cup rotReq.older
  /\ rotReq' = IdleRot
  /\ UNCHANGED <<nowMs, kvVault, kvRuntime, configCache, rtReq, nextGen, rotCalls, rtCalls,
                 outsideRotate>>

\* the worker stops in the middle of a rotate: the writes made so far stay
RotateInterrupt ==
  /\ rotReq.pc \in {"putHmacSecret", "putRecord"}
  /\ rotReq' = IdleRot
  /\ UNCHANGED <<nowMs, kvVault, kvRuntime, configCache, rtReq, nextGen, revoked, rotCalls,
                 rtCalls, outsideRotate>>

\* ---- POST /v1/admin/pairing/generate ----

IdleGen ==
  [pc |-> "idle", runtime |-> NoRecord, loadedAtMs |-> 0, keySecret |-> "",
   hmacSecret |-> "", code |-> <<>>, status |-> 0, error |-> ""]

\* what a generate step leaves alone besides the cache and the pairing store
exceptGenerate ==
  <<nowMs, connReq, served, registryVars, verifyVars, proxyVars, cacheVars, sessionVars,
    loginVars, bootVars, vaultVars, kvRuntime, rotReq, rtReq, nextGen, revoked, rotCalls,
    rtCalls, secretsVars, resolverVars, schemaCall, loggedOut>>

\* getRuntimeRecord: the cached snapshot while it is fresh, else kv.get
GenerateStart ==
  /\ genReq.pc = "idle"
  /\ genReq' = IF ConfigCacheFresh
                 THEN [IdleGen EXCEPT !.pc = "resolveKey", !.runtime = configCache.snapshot]
                 ELSE [IdleGen EXCEPT !.pc = "get", !.loadedAtMs = nowMs]
  /\ UNCHANGED <<configCache, kvPairing, issued, exceptGenerate>>

\* kv.get("runtime:active")
GenerateGet ==
  /\ genReq.pc = "get"
  /\ genReq' = [genReq EXCEPT !.pc = "fill", !.runtime = kvRuntime]
  /\ UNCHANGED <<configCache, kvPairing, issued, exceptGenerate>>

\* the other reads of getConfigSnapshot have returned: the cache is filled
GenerateFill ==
  /\ genReq.pc = "fill"
  /\ configCache' = [loadedAtMs |-> genReq.loadedAtMs, snapshot |-> genReq.runtime]
  /\ genReq' = [genReq EXCEPT !.pc = "resolveKey"]
  /\ UNCHANGED <<kvPairing, issued, exceptGenerate>>

\* resolveSecretValue(env, runtime.keySecretBinding)
GenerateResolveKey ==
  /\ genReq.pc = "resolveKey"
  /\ genReq' = [genReq EXCEPT !.pc = "resolveHmac",
        !.keySecret = ResolveSecretValue(kvVault, genReq.runtime.keySecretBinding)]
  /\ UNCHANGED <<configCache, kvPairing, issued, exceptGenerate>>

\* resolveSecretValue(env, runtime.hmacSecretBinding), then the test of both
GenerateResolveHmac ==
  /\ genReq.pc = "resolveHmac"
  /\ LET runtimeHmacSecret == ResolveSecretValue(kvVault, genReq.runtime.hmacSecretBinding)
     IN  genReq' =
           IF genReq.keySecret = "" \/ runtimeHmacSecret = ""
             THEN [genReq EXCEPT !.pc = "done", !.status = 500,
                                 !.error = "missing_runtime_pairing_secrets"]
             ELSE [genReq EXCEPT !.pc = "put", !.hmacSecret = runtimeHmacSecret]
  /\ UNCHANGED <<configCache, kvPairing, issued, exceptGenerate>>

\* `${runtime.id}.${runtimeKeySecret}`
RuntimeKeyOf(id, secret) == <<id, ".", secret>>

\* createPairingCode, kv.put(pairingKvKey(code), {workerUrl, runtimeKey,
\* hmacSecret}) and the 200 response
GeneratePut(c) ==
  /\ genReq.pc = "put"
  /\ c \in Codes \ issued
  /\ issued' = issued \cup {c}
  /\ kvPairing' = [kvPairing EXCEPT ![PairingKvKey(c)] =
       [present |-> TRUE,
        value |-> [workerUrl |-> "worker",
                   runtimeKey |-> RuntimeKeyOf(genReq.runtime.id, genReq.keySecret),
                   hmacSecret |-> genReq.hmacSecret],
        expiresAtMs |-> nowMs + PAIRING_TTL_SECONDS * 1000]]
  /\ genReq' = [genReq EXCEPT !.pc = "done", !.status = 200, !.code = c]
  /\ UNCHANGED <<configCache, exceptGenerate>>

GenerateReturn ==
  /\ genReq.pc = "done"
  /\ genReq' = IdleGen
  /\ UNCHANGED <<configCache, kvPairing, issued, exceptGenerate>>

\* ---- DELETE /v1/admin/secrets/:binding ----

\* deleteVaultSecret and the 200 response
SecretDelete(binding) ==
  /\ kvVault[binding].present
  /\ kvVault' = [kvVault EXCEPT ![binding] = NoRecord]
  /\ shadowVault' = [shadowVault EXCEPT ![binding] = NoRecord]
  /\ secretResp' = [present |-> TRUE, status |-> 200, body |-> [ok |-> TRUE, binding |-> binding]]
  /\ shadowResp' = [present |-> TRUE, status |-> 200, body |-> [ok |-> TRUE, binding |-> binding]]
  /\ UNCHANGED <<nowMs, rotateVars, listReq, secretCalls, outsideSecrets>>

\* ---- authenticateRuntimeRequest ----

\* the request of a runtime that holds the credentials of generation g
RuntimeRequestOf(g) ==
  [SignedRequest("youtube", ActionOf("youtube"), "{}", nowMs \div 1000, HmacSecrets[g])
     EXCEPT !.authorization = <<"Bearer ", KeyIds[g], ".", KeySecrets[g]>>]

\* parseBearer and getRuntimeRecord's test of the cache
RuntimeStart(g) ==
  /\ rtReq.pc = "idle"
  /\ rtCalls < MaxRtCalls
  /\ g < nextGen
  /\ rtCalls' = rtCalls + 1
  /\ LET req == [IdleRt EXCEPT !.gen = g, !.request = RuntimeRequestOf(g),
                               !.revokedAtStart = g \in revoked, !.loadedAtMs = nowMs]
     IN  rtReq' = IF ConfigCacheFresh
                    THEN [req EXCEPT !.pc = "resolve", !.runtime = configCache.snapshot]
                    ELSE [req EXCEPT !.pc = "get"]
  /\ UNCHANGED <<nowMs, kvVault, kvRuntime, configCache, rotReq, nextGen, revoked, rotCalls,
                 outsideRotate>>

\* kv.get("runtime:active")
RuntimeGet ==
  /\ rtReq.pc = "get"
  /\ rtReq' = [rtReq EXCEPT !.pc = "fill", !.runtime = kvRuntime]
  /\ UNCHANGED <<nowMs, kvVault, kvRuntime, configCache, rotReq, nextGen, revoked, rotCalls,
                 rtCalls, outsideRotate>>

\* the other reads of getConfigSnapshot have returned: the cache is filled
RuntimeFill ==
  /\ rtReq.pc = "fill"
  /\ configCache' = [loadedAtMs |-> rtReq.loadedAtMs, snapshot |-> rtReq.runtime]
  /\ rtReq' = [rtReq EXCEPT !.pc = "resolve"]
  /\ UNCHANGED <<nowMs, kvVault, kvRuntime, rotReq, nextGen, revoked, rotCalls, rtCalls,
                 outsideRotate>>

\* resolveSecretValue(runtime.hmacSecretBinding) and the checks of
\* authenticateRuntimeRequest
RuntimeResolve ==
  /\ rtReq.pc = "resolve"
  /\ LET hmacSecret == ResolveSecretValue(kvVault, rtReq.runtime.hmacSecretBinding)
         auth == AuthenticateRuntimeRequest(rtReq.request, rtReq.runtime, hmacSecret, nowMs)
     IN  rtReq' = [rtReq EXCEPT !.pc = "done", !.status = auth.status,
                                !.reason = auth.reason]
  /\ UNCHANGED <<nowMs, kvVault, kvRuntime, configCache, rotReq, nextGen, revoked, rotCalls,
                 rtCalls, outsideRotate>>

RuntimeReturn ==
  /\ rtReq.pc = "done"
  /\ rtReq' = IdleRt
  /\ UNCHANGED <<nowMs, kvVault, kvRuntime, configCache, rotReq, nextGen, revoked, rotCalls,
                 rtCalls, outsideRotate>>

\* time passes, less than the signature window per step
RotateTick ==
  /\ nowMs < MaxRotateTicks * (CONFIG_CACHE_TTL_MS \div 2)
  /\ nowMs' = nowMs + CONFIG_CACHE_TTL_MS \div 2
  /\ UNCHANGED <<kvVault, rotateVars, outsideRotate>>

\* one admin who rotates and generates, one call after the other
NextGenerate ==
  \/ genReq.pc = "idle" /\ RotateStart
  \/ RotateGet
  \/ RotateFill
  \/ RotatePutKeySecret
  \/ RotatePutHmacSecret
  \/ RotatePutRecord
  \/ RotateReturn
  \/ rotReq.pc = "idle" /\ issued # Codes /\ GenerateStart
  \/ GenerateGet
  \/ GenerateFill
  \/ GenerateResolveKey
  \/ GenerateResolveHmac
  \/ \E c \in Codes : GeneratePut(c)
  \/ GenerateReturn
  \/ RotateTick

NextRotate ==
  \/ RotateStart
  \/ RotateGet
  \/ RotateFill
  \/ RotatePutKeySecret
  \/ RotatePutHmacSecret
  \/ RotatePutRecord
  \/ RotateReturn
  \/ RotateInterrupt
  \/ \E b \in {"PINCER_HMAC_SECRET_ACTIVE", "PINCER_RUNTIME_KEY_SECRET_ACTIVE"} :
       SecretDelete(b)
  \/ \E g \in Gens : RuntimeStart(g)
  \/ RuntimeGet
  \/ RuntimeFill
  \/ RuntimeResolve
  \/ RuntimeReturn
  \/ RotateTick

\* the deployment after the first setup: generation 1 in runtime:active, its
\* secrets in the environment's fallback bindings, nothing cached
InitRotateState ==
  /\ kvRuntime = RuntimeRecordOf(1, 0)
  /\ configCache = EmptyConfigCache
  /\ rotReq = IdleRot
  /\ rtReq = IdleRt
  /\ nextGen = 2
  /\ revoked = {}
  /\ rotCalls = 0
  /\ rtCalls = 0

(***************************************************************************)
(* Secrets admin endpoints: GET /v1/admin/secrets and PUT/DELETE           *)
(* /v1/admin/secrets/:binding (index.ts, vault.ts).  Every request is      *)
(* served by two boundaries whose vaults hold the same bindings with the   *)
(* same metadata and possibly other plaintexts.                            *)
(***************************************************************************)
MaxSecretCalls == 3
MaxSecretsTicks == 1

Plaintexts == {"p1", "p2"}
SecretValues == Plaintexts \cup {""}
SecretBindings == {"PINCER_HMAC_SECRET_ACTIVE", "VAULT_KEY", "UNSET_KEY"}

\* the hints of GET /v1/admin/secrets: the runtime record's bindings and the
\* requiredSecrets of the active adapters
SecretHints ==
  {kvRuntime.hmacSecretBinding, kvRuntime.keySecretBinding}
  \cup UNION { SeqToSet(kvManifest[<<a, kvIndex.active[a].revision>>].value.requiredSecrets) :
                 a \in {x \in Adapters :
                          /\ kvIndex.active[x].present
                          /\ kvManifest[<<x, kvIndex.active[x].revision>>].present} }

\* listVaultKeys joined with the hints
KnownBindings(store, hints) == hints \cup {b \in VaultBindings : store[b].present}

\* one row of listSecretMetadata with the decrypted value in place of updatedAt
SecretMetadataRowWithValue(store, binding) ==
  [binding |-> binding, present |-> store[binding].present,
   updatedAt |-> GetVaultSecretValue(store, binding)]

\* one row of listSecretMetadata
SecretMetadataRow(store, binding) ==
  IF store[binding].present
    THEN [binding |-> binding, present |-> TRUE, updatedAt |-> store[binding].updatedAt]
    ELSE [binding |-> binding, present |-> EnvValue(binding) # "", updatedAt |-> -1]

\* listSecretMetadata: the rows, which the code orders by binding name
ListSecretMetadata(store, known) == {SecretMetadataRow(store, b) : b \in known}

IdleList == [pc |-> "idle", known |-> {}, shadowKnown |-> {}]

\* PUT /v1/admin/secrets/:binding
SecretPut(binding, value) ==
  /\ secretCalls < MaxSecretCalls
  /\ secretCalls' = secretCalls + 1
  /\ IF value = ""
       THEN /\ secretResp' = [present |-> TRUE, status |-> 400,
                              body |-> [error |-> "invalid_secret_value"]]
            /\ shadowResp' = [present |-> TRUE, status |-> 400,
                              body |-> [error |-> "invalid_secret_value"]]
            /\ UNCHANGED <<kvVault, shadowVault>>
       ELSE LET record == VaultRecord(VaultKek, secretCalls + 1, value, nowMs, "admin")
                body == [ok |-> TRUE,
                         secret |-> [binding |-> binding, updatedAt |-> record.updatedAt]]
            IN  /\ kvVault' = [kvVault EXCEPT ![binding] = record]
                /\ shadowVault' = [shadowVault EXCEPT ![binding] = record]
                /\ secretResp' = [present |-> TRUE, status |-> 200, body |-> body]
                /\ shadowResp' = [present |-> TRUE, status |-> 200, body |-> body]
  /\ UNCHANGED <<nowMs, rotateVars, listReq, outsideSecrets>>

\* GET /v1/admin/secrets: the hints and listVaultKeys
SecretListKeys ==
  /\ listReq.pc = "idle"
  /\ secretCalls < MaxSecretCalls
  /\ secretCalls' = secretCalls + 1
  /\ listReq' = [pc |-> "rows", known |-> KnownBindings(kvVault, SecretHints),
                 shadowKnown |-> KnownBindings(shadowVault, SecretHints)]
  /\ UNCHANGED <<nowMs, kvVault, rotateVars, shadowVault, secretResp, shadowResp,
                 outsideSecrets>>

\* GET /v1/admin/secrets: getVaultSecretRecord per binding and the response
SecretListRows ==
  /\ listReq.pc = "rows"
  /\ secretResp' = [present |-> TRUE, status |-> 200,
                    body |-> [ok |-> TRUE,
                              secrets |-> ListSecretMetadata(kvVault, listReq.known)]]
  /\ shadowResp' = [present |-> TRUE, status |-> 200,
                    body |-> [ok |-> TRUE,
                              secrets |-> ListSecretMetadata(shadowVault, listReq.shadowKnown)]]
  /\ listReq' = IdleList
  /\ UNCHANGED <<nowMs, kvVault, rotateVars, shadowVault, secretCalls, outsideSecrets>>

SecretsTick ==
  /\ nowMs < MaxSecretsTicks * 1000
  /\ nowMs' = nowMs + 1000
  /\ UNCHANGED <<kvVault, rotateVars, secretsVars, outsideSecrets>>

NextSecrets ==
  \/ \E b \in SecretBindings, v \in SecretValues : SecretPut(b, v)
  \/ \E b \in SecretBindings : (secretCalls < MaxSecretCalls /\ SecretDelete(b))
  \/ SecretListKeys
  \/ SecretListRows
  \/ SecretsTick

InitNoSecretCalls ==
  /\ secretResp = NoRecord
  /\ shadowResp = NoRecord
  /\ listReq = IdleList
  /\ secretCalls = 0

(***************************************************************************)
(* The vault's resolver (vault.ts): putVaultSecret, deleteVaultSecret and  *)
(* resolveSecretValue called on one binding at a time.  Each call makes    *)
(* one KV operation.                                                       *)
(***************************************************************************)
MaxVaultCalls == 3

VaultPlaintexts == {"", "p1", "bom", "bom+p1", "surrogate"}

\* putVaultSecret: throws on an empty value, else stores the record
VaultPut(binding, value) ==
  /\ vaultCalls < MaxVaultCalls
  /\ vaultCalls' = vaultCalls + 1
  /\ IF value = ""
       THEN UNCHANGED <<kvVault, lastPut>>
       ELSE /\ kvVault' = [kvVault EXCEPT
                             ![binding] = VaultRecord(VaultKek, vaultCalls + 1, value, nowMs, "admin")]
            /\ lastPut' = [lastPut EXCEPT ![binding] = value]
  /\ UNCHANGED <<nowMs, schemaCall, loggedOut, genReq, lastResolve, rotateVars, secretsVars, pairingVars, registryVars, verifyVars,
                 proxyVars, cacheVars, sessionVars, loginVars, bootVars>>

\* deleteVaultSecret
VaultDelete(binding) ==
  /\ vaultCalls < MaxVaultCalls
  /\ vaultCalls' = vaultCalls + 1
  /\ kvVault' = [kvVault EXCEPT ![binding] = NoRecord]
  /\ lastPut' = [lastPut EXCEPT ![binding] = ""]
  /\ UNCHANGED <<nowMs, schemaCall, loggedOut, genReq, lastResolve, rotateVars, secretsVars, pairingVars, registryVars, verifyVars,
                 proxyVars, cacheVars, sessionVars, loginVars, bootVars>>

\* resolveSecretValue
VaultResolve(binding) ==
  /\ vaultCalls < MaxVaultCalls
  /\ vaultCalls' = vaultCalls + 1
  /\ lastResolve' = [present |-> TRUE, binding |-> binding, put |-> lastPut[binding],
                  value |-> ResolveSecretValue(kvVault, binding)]
  /\ UNCHANGED <<nowMs, schemaCall, loggedOut, genReq, kvVault, lastPut, rotateVars, secretsVars, pairingVars, registryVars,
                 verifyVars, proxyVars, cacheVars, sessionVars, loginVars, bootVars>>

NextVault ==
  \/ \E b \in SecretBindings, v \in VaultPlaintexts : VaultPut(b, v)
  \/ \E b \in SecretBindings : VaultDelete(b)
  \/ \E b \in SecretBindings : VaultResolve(b)

InitResolver ==
  /\ lastPut = [b \in VaultBindings |-> IF b = "VAULT_KEY" THEN "vault-value" ELSE ""]
  /\ lastResolve = NoRecord
  /\ vaultCalls = 0

(***************************************************************************)
(* validateInputWithSchema called on its own (shared-types).               *)
(***************************************************************************)
SchemaValues ==
  {[type |-> "string", length |-> 1], [type |-> "string", length |-> 3],
   [type |-> "integer", value |-> 1], [type |-> "integer", value |-> 3],
   [type |-> "fraction", value |-> 1], [type |-> "boolean", value |-> 1]}

SchemaKeys == {"q", "n", "constructor"}

\* the input objects: any keys, any values
SchemaInputs == UNION {[keys -> SchemaValues] : keys \in SUBSET SchemaKeys}

QProperty == [type |-> "string", minLength |-> 1, maxLength |-> 2]
NProperty == [type |-> "integer", minimum |-> 1, maximum |-> 2]

\* the schemas: closed and open ones, with and without bounds, with an enum,
\* of each property type, one that requires a name no property declares
InputSchemas ==
  {[required |-> {"q"}, additionalProperties |-> FALSE,
    properties |-> [k \in {"q", "n"} |-> IF k = "q" THEN QProperty ELSE NProperty]],
   [required |-> {"q"}, additionalProperties |-> TRUE,
    properties |-> [k \in {"q"} |-> QProperty]],
   [required |-> {}, additionalProperties |-> FALSE,
    properties |-> [k \in {"q", "n"} |->
                     IF k = "q" THEN [type |-> "string"]
                     ELSE [type |-> "number", minimum |-> 1, maximum |-> 2]]],
   [required |-> {"n"}, additionalProperties |-> FALSE,
    properties |-> [k \in {"q", "n"} |->
                     IF k = "q" THEN [type |-> "boolean"]
                     ELSE [type |-> "integer",
                           enum |-> {[type |-> "integer", value |-> 1]}]]],
   [required |-> {"constructor"},
    properties |-> [k \in {"q"} |-> QProperty]],
   [properties |-> [k \in {"constructor"} |-> NProperty]]}

NoSchemaCall == [present |-> FALSE, input |-> <<>>, schema |-> <<>>, errors |-> {}]

ValidateInput(input, schema) ==
  /\ ~schemaCall.present
  /\ schemaCall' = [present |-> TRUE, input |-> input, schema |-> schema,
                    errors |-> ValidateInputWithSchema(input, schema)]
  /\ UNCHANGED <<nowMs, kvVault, resolverVars, loggedOut, genReq, rotateVars, secretsVars, pairingVars,
                 registryVars, verifyVars, proxyVars, cacheVars, sessionVars, loginVars,
                 bootVars>>

NextSchema == \E input \in SchemaInputs, schema \in InputSchemas : ValidateInput(input, schema)

InitLater ==
  /\ InitResolver
  /\ schemaCall = NoSchemaCall
  /\ loggedOut = {}
  /\ genReq = IdleGen

InitMore ==
  /\ InitNoBootstrap
  /\ kvVault = InitialVault
  /\ InitRotateState
  /\ shadowVault = InitialVault
  /\ InitNoSecretCalls
  /\ InitLater

InitRegistry ==
  /\ kvIndex = EmptyIndex
  /\ kvManifest = [k \in Adapters \X Revisions |-> NoRecord]
  /\ kvProposal = [p \in ProposalIds |-> NoRecord]
  /\ kvAudit = <<>>
  /\ nextProposalId = 1
  /\ regReq = [r \in RegSlots |-> IdleReg]
  /\ regCalls = 0
  /\ registryCache = EmptyCache

InitPairing ==
  /\ kvPairing = [c \in Codes |-> NoRecord]
  /\ issued = {}
  /\ connReq = [r \in ConnSlots |-> IdleConn]
  /\ served = [c \in Codes |-> 0]

Init ==
  /\ nowMs = 0
  /\ InitPairing
  /\ InitRegistry
  /\ InitVerify
  /\ InitProxyState
  /\ InitNoSession
  /\ LoginState(0)
  /\ InitMore

\* a deployment with the youtube adapter installed
InitProxy ==
  /\ nowMs = 0
  /\ InitPairing
  /\ \E rate \in {1, 2} : InstalledRegistry(rate)
  /\ InitVerify
  /\ InitProxyState
  /\ InitNoSession
  /\ LoginState(0)
  /\ InitMore

NextPairing ==
  \/ \E c \in Codes : PairingGenerate(c)
  \/ \E c \in Codes : KvExpirePairing(c)
  \/ \E r \in ConnSlots, code \in CodeInputs : ConnectGet(r, code)
  \/ \E r \in ConnSlots : ConnectDelete(r)
  \/ \E r \in ConnSlots : ConnectReturn(r)
  \/ PairingTick

SpecPairing == Init /\ [][NextPairing]_vars

Submitters == {"agent"}

\* the manifests proposals are submitted with: one per adapter and one that
\* validation refuses
SubmitInputs ==
  {GoodManifest("youtube", 1, 1), GoodManifest("gdrive", 1, 1)}
  \cup { m \in BadManifests : m.revision = 0 }

\* the manifests applied directly: two contents of youtube revision 1, a later
\* revision, one whose required secret is not set, one that validation refuses
ApplyInputs ==
  {GoodManifest("youtube", 1, 1), GoodManifest("youtube", 1, 2),
   GoodManifest("youtube", MaxRevision, 1)}
  \cup { m \in GoodManifests : SeqToSet(m.requiredSecrets) \cap {"UNSET_KEY", "VAULT_KEY"} # {} }
  \cup { m \in BadManifests : m.revision = 0 }

NextRegistry ==
  \/ \E r \in RegSlots, raw \in SubmitInputs, by \in Submitters : SubmitPut(r, raw, by)
  \/ \E r \in RegSlots : SubmitReadIndex(r)
  \/ \E r \in RegSlots : SubmitWriteIndex(r)
  \/ \E r \in RegSlots : SubmitAudit(r)
  \/ \E r \in RegSlots, p \in ProposalIds : ApplyStart(r, p, NoRecord)
  \/ \E r \in RegSlots, raw \in ApplyInputs : ApplyStart(r, 0, raw)
  \/ \E r \in RegSlots : ApplyReadIndex(r)
  \/ \E r \in RegSlots : ApplyReadManifest(r)
  \/ \E r \in RegSlots : ApplyPutSnapshot(r)
  \/ \E r \in RegSlots : ApplyDeleteProposal(r)
  \/ \E r \in RegSlots : ApplyWriteIndex(r)
  \/ \E r \in RegSlots : ApplyAudit(r)
  \/ \E r \in RegSlots, p \in ProposalIds : RejectGet(r, p, NoRecord)
  \/ \E r \in RegSlots : RejectReadIndex(r)
  \/ \E r \in RegSlots : RejectWriteIndex(r)
  \/ \E r \in RegSlots : RejectDelete(r)
  \/ \E r \in RegSlots : RejectAudit(r)
  \/ \E r \in RegSlots, a \in Adapters, enabled \in BOOLEAN : ToggleRead(r, a, enabled)
  \/ \E r \in RegSlots : ToggleWrite(r)
  \/ \E r \in RegSlots : RegReturn(r)
  \/ \E r \in RegSlots : RegInterrupt(r)
  \/ RegistryTick

SpecRegistry == Init /\ [][NextRegistry]_vars

\* what a caller may send as payload.reason: nothing, a text, a padded text,
\* blanks only
RejectReasons ==
  {NoRecord, ReasonOf(<<"b", "a", "d">>), ReasonOf(<<" ", "b", "a", "d", " ">>),
   ReasonOf(<<" ">>)}

\* the proposal lifecycle: submit, approve, reject
NextAudit ==
  \/ \E r \in RegSlots, raw \in SubmitInputs, by \in Submitters : SubmitPut(r, raw, by)
  \/ \E r \in RegSlots : SubmitReadIndex(r)
  \/ \E r \in RegSlots : SubmitWriteIndex(r)
  \/ \E r \in RegSlots : SubmitAudit(r)
  \/ \E r \in RegSlots, p \in ProposalIds : ApplyStart(r, p, NoRecord)
  \/ \E r \in RegSlots : ApplyReadIndex(r)
  \/ \E r \in RegSlots : ApplyReadManifest(r)
  \/ \E r \in RegSlots : ApplyPutSnapshot(r)
  \/ \E r \in RegSlots : ApplyDeleteProposal(r)
  \/ \E r \in RegSlots : ApplyWriteIndex(r)
  \/ \E r \in RegSlots : ApplyAudit(r)
  \/ \E r \in RegSlots, p \in ProposalIds, reason \in RejectReasons : RejectGet(r, p, reason)
  \/ \E r \in RegSlots : RejectReadIndex(r)
  \/ \E r \in RegSlots : RejectWriteIndex(r)
  \/ \E r \in RegSlots : RejectDelete(r)
  \/ \E r \in RegSlots : RejectAudit(r)
  \/ \E r \in RegSlots : RegReturn(r)

SpecAudit == Init /\ [][NextAudit]_vars

\* apply called with a proposalId, a manifest, both or neither
NextApplyArguments ==
  \/ \E r \in RegSlots, raw \in SubmitInputs, by \in Submitters : SubmitPut(r, raw, by)
  \/ \E r \in RegSlots : SubmitReadIndex(r)
  \/ \E r \in RegSlots : SubmitWriteIndex(r)
  \/ \E r \in RegSlots : SubmitAudit(r)
  \/ \E r \in RegSlots, p \in ProposalIds \cup {0}, raw \in ApplyInputs \cup {NoRecord} :
        ApplyStart(r, p, raw)
  \/ \E r \in RegSlots : ApplyReadIndex(r)
  \/ \E r \in RegSlots : ApplyReadManifest(r)
  \/ \E r \in RegSlots : ApplyPutSnapshot(r)
  \/ \E r \in RegSlots : ApplyDeleteProposal(r)
  \/ \E r \in RegSlots : ApplyWriteIndex(r)
  \/ \E r \in RegSlots : ApplyAudit(r)
  \/ \E r \in RegSlots : RegReturn(r)

SpecApplyArguments == Init /\ [][NextApplyArguments]_vars

\* the same with audit writes that may fail
NextAuditFailing ==
  \/ NextAudit
  \/ \E r \in RegSlots : AuditPutFails(r)

SpecAuditFailing == Init /\ [][NextAuditFailing]_vars

SpecRotate == Init /\ [][NextRotate]_vars
SpecGenerate == Init /\ [][NextGenerate]_vars

\* two boundaries whose vaults hold the same bindings, stored at the same
\* time by the same admin, with plaintexts chosen independently
InitSecrets ==
  /\ nowMs = 0
  /\ InitPairing
  /\ InitRegistry
  /\ InitVerify
  /\ InitProxyState
  /\ InitNoSession
  /\ LoginState(0)
  /\ InitNoBootstrap
  /\ InitRotateState
  /\ InitNoSecretCalls
  /\ InitLater
  /\ \E stored \in SUBSET SecretBindings :
       \E plain \in [stored -> Plaintexts], shadowPlain \in [stored -> Plaintexts] :
         /\ kvVault = [b \in VaultBindings |->
              IF b \in stored THEN VaultRecord(VaultKek, 0, plain[b], 0, "admin")
              ELSE NoRecord]
         /\ shadowVault = [b \in VaultBindings |->
              IF b \in stored THEN VaultRecord(VaultKek, 0, shadowPlain[b], 0, "admin")
              ELSE NoRecord]

SpecSecrets == InitSecrets /\ [][NextSecrets]_vars

SpecVerify == Init /\ [][NextVerify]_vars

SpecProxy == InitProxy /\ [][NextProxy]_vars
SpecPayload == InitProxy /\ [][NextPayload]_vars
SpecRuntime == InitProxy /\ [][NextRuntime]_vars

\* a deployment whose admin holds a session
InitSession ==
  /\ \E start \in SessionStarts : nowMs = start /\ LoggedIn(start)
  /\ InitPairing
  /\ InitRegistry
  /\ InitVerify
  /\ InitProxyState
  /\ LoginState(0)
  /\ InitMore

SpecSession == InitSession /\ [][NextSession]_vars
SpecLogout == InitSession /\ [][NextLogout]_vars

\* a deployment whose admin user has seen some wrong passwords
InitLogin ==
  /\ nowMs = 0
  /\ InitPairing
  /\ InitRegistry
  /\ InitVerify
  /\ InitProxyState
  /\ InitNoSession
  /\ \E prior \in {0, MaxPriorFailures} : LoginState(prior)
  /\ InitMore

SpecLogin == InitLogin /\ [][NextLogin]_vars

\* a fresh deployment: no admin user yet
InitBootstrap ==
  /\ nowMs = 0
  /\ InitPairing
  /\ InitRegistry
  /\ InitVerify
  /\ InitProxyState
  /\ InitNoSession
  /\ kvAdminUser = NoRecord
  /\ kvLogin = [u \in Usernames |-> NoRecord]
  /\ loginReq = [r \in LoginSlots |-> IdleLogin]
  /\ failures = [u \in Usernames |-> [n |-> 0, at |-> 0, raced |-> FALSE]]
  /\ loginCalls = 0
  /\ InitMore

SpecBootstrap == InitBootstrap /\ [][NextBootstrap]_vars

\* C1: for every pairing code, at most one connect call is answered 200 with
\* the credentials stored for it, whatever the interleaving of the calls' KV
\* get and KV delete.
C1_AtMostOneConnect == \A c \in Codes : served[c] <= 1

\* C2: at every point, also while an apply is in flight or after one was
\* interrupted, every adapter the stored index lists as active has a stored
\* manifest snapshot at exactly its active revision.
C2_ActiveHasSnapshot ==
  \A a \in Adapters :
    kvIndex.active[a].present
      => kvManifest[<<a, kvIndex.active[a].revision>>].present

\* youtube is active at revision 1 while an apply of a later revision was
\* interrupted after its snapshot put: the later snapshot is stored, no call is
\* in flight
C2_Witness ==
  /\ kvIndex.active["youtube"].present
  /\ kvIndex.active["youtube"].revision = 1
  /\ kvManifest[<<"youtube", 1>>].present
  /\ kvManifest[<<"youtube", MaxRevision>>].present
  /\ \A r \in RegSlots : regReq[r].pc = "idle"

\* C3: at every point, also while a call is in flight or after one was
\* interrupted, every proposal the stored index lists has a stored proposal
\* record.
C3_ListedProposalsStored ==
  \A i \in 1..Len(kvIndex.proposals) :
    kvProposal[kvIndex.proposals[i].proposalId].present

\* C4: runtime authentication succeeds only if the presented signature is the
\* HMAC of the canonical string (METHOD, path, timestamp, sha256(body)) under
\* the resolved secret, the presented body hash is sha256(body), and the
\* timestamp is at most skewSeconds from the current second; an otherwise
\* valid request exactly skewSeconds away succeeds, and one skewSeconds + 1
\* away is refused as stale_timestamp.
C4_RuntimeAuth ==
  authCall.present =>
    LET r == authCall.request
        ts == r.timestamp.value
        distance == Abs(authCall.nowMs \div 1000 - ts)
        skew == authCall.runtime.skewSeconds
        signed == /\ r.signature.prefix \in {"", "v1="}
                  /\ r.signature.hex = HmacSha256Hex(authCall.hmacSecret,
                       <<ToUpperCase(r.method), r.path, ts, Sha256Hex(r.body)>>)
        hashed == /\ r.bodySha256.prefix \in {"", "v1="}
                  /\ r.bodySha256.hex = Sha256Hex(r.body)
        keyed == /\ r.authorization[2] = authCall.runtime.id
                 /\ Sha256Hex(r.authorization[4]) = authCall.runtime.keyHash
                 /\ authCall.hmacSecret # ""
    IN  /\ authCall.result.ok =>
             signed /\ hashed /\ r.timestamp.digits /\ distance <= skew
        /\ (keyed /\ signed /\ hashed /\ r.timestamp.digits /\ distance = skew)
             => authCall.result.ok
        /\ (keyed /\ r.timestamp.digits /\ distance = skew + 1)
             => ~authCall.result.ok /\ authCall.result.reason = "stale_timestamp"

\* a signed request whose timestamp is exactly skewSeconds behind the current
\* second is accepted part-way through that second
C4_Witness ==
  /\ authCall.present
  /\ authCall.result.ok
  /\ authCall.nowMs % 1000 # 0
  /\ authCall.nowMs \div 1000 - authCall.request.timestamp.value
       = authCall.runtime.skewSeconds
  /\ authCall.request.signature.prefix = "v1="

\* C5: for each (keyId, adapter, action, minute bucket), of the requests that
\* reach the rate-limit step exactly the first ratePerMinute pass it and every
\* later one is answered 429 rate_limited, whatever the interleaving of the
\* requests.
C5_RateLimit ==
  \A key \in DOMAIN admitted :
    \A i \in 1..Len(admitted[key]) :
      LET e == admitted[key][i]
      IN  /\ i <= e.limit => e.passed
          /\ i > e.limit => ~e.passed /\ e.status = 429 /\ e.error = "rate_limited"

\* with ratePerMinute = 2, three requests of one bucket reached the step: two
\* passed and the third was refused
C5_Witness ==
  \E key \in DOMAIN admitted :
    /\ Len(admitted[key]) = 3
    /\ admitted[key][1].limit = 2
    /\ admitted[key][2].passed
    /\ ~admitted[key][3].passed

SafeMethods == {"GET", "HEAD", "OPTIONS"}

C7_AdminGate ==
  /\ \A e \in boundaryLog :
       e.found /\ e.unexpired /\ (e.method \notin SafeMethods => e.csrfOk)
  /\ \A r \in AdminSlots :
       LET q == adminReq[r]
       IN  q.pc = "done" /\ Dispatch(q.method, q.route) = "gated" =>
             /\ ~(q.found /\ q.unexpired) => q.status = 401
             /\ q.found /\ q.unexpired /\ q.method \notin SafeMethods /\ ~q.csrfOk =>
                  q.status = 403 /\ q.error = "invalid_csrf_token"

C7_Witness ==
  /\ \E e \in boundaryLog : e.method = "PUT" /\ e.effect = "write"
  /\ \E r \in AdminSlots :
       /\ adminReq[r].pc = "done" /\ adminReq[r].method = "PUT"
       /\ adminReq[r].found /\ adminReq[r].status = 403
  /\ \E r \in AdminSlots :
       /\ adminReq[r].pc = "done" /\ adminReq[r].route = "adapters"
       /\ adminReq[r].cookie # 0 /\ adminReq[r].status = 401

Overdue(q) ==
  /\ q.cookie # 0
  /\ \/ q.idleFor > SESSION_IDLE_TTL_SECONDS * 1000
     \/ q.age > SESSION_ABSOLUTE_TTL_SECONDS * 1000

\* C8 as stated: a request carrying the cookie of a session unused for more
\* than 30 minutes or created more than 8 hours ago is answered 401
\* expired_admin_session and the record of the session is no longer stored.
C8_ExpiredAsStated ==
  \A r \in AdminSlots :
    LET q == adminReq[r]
    IN  Overdue(q) =>
          /\ q.pc \in {"expireDelete", "done"}
          /\ q.pc = "done" =>
               /\ q.status = 401 /\ q.error = "expired_admin_session"
               /\ ~KvGetSession(kvSession, q.cookie, nowMs).present

\* C8 amended: such a request is answered 401; when the record was still
\* stored the error is expired_admin_session and the request deleted the
\* record, when it was no longer stored the error is invalid_admin_session.
C8_Expired ==
  \A r \in AdminSlots :
    LET q == adminReq[r]
    IN  Overdue(q) =>
          /\ q.pc \in {"expireDelete", "done"}
          /\ q.pc = "done" =>
               /\ q.status = 401
               /\ q.found => q.error = "expired_admin_session" /\ q.deleted
               /\ ~q.found => q.error = "invalid_admin_session"

C8_Witness ==
  \E r \in AdminSlots :
    /\ adminReq[r].pc = "done" /\ adminReq[r].found /\ adminReq[r].deleted
    /\ adminReq[r].idleFor > SESSION_IDLE_TTL_SECONDS * 1000
    /\ adminReq[r].age <= SESSION_ABSOLUTE_TTL_SECONDS * 1000
    /\ adminReq[r].status = 401

\* C9: once the response of a rotation has delivered the new cookie, no
\* later request carrying the previous session id authenticates.
C9_RetiredIdRefused ==
  \A r \in AdminSlots :
    adminReq[r].retiredAtStart =>
      /\ adminReq[r].pc \notin {"rotateDelete", "rotatePut", "touchPut", "handler"}
      /\ adminReq[r].pc = "done" => adminReq[r].status \in {401, 403}

\* C10: a login attempt that starts after the n-th consecutive failure of
\* its (username, clientId), n >= 5, and less than min(900, 30 * 2^(n-5))
\* seconds after that failure, is answered 429 login_locked.
C10_LockedAfterFailures ==
  \A r \in LoginSlots :
    LET q == loginReq[r]
    IN  /\ q.pc # "idle"
        /\ q.priorFailures >= LOGIN_LOCK_THRESHOLD
        /\ q.now - q.priorAt <
             1000 * Min(LOGIN_LOCK_MAX_SECONDS,
                        30 * Pow2(q.priorFailures - LOGIN_LOCK_THRESHOLD))
        => q.pc = "done" /\ q.status = 429 /\ q.error = "login_locked"

\* C11: a failed login that trackLoginFailure counts as the n-th is answered
\* 401 invalid_credentials for n from 1 to 4 and 429 login_locked with
\* retry-after min(900, 30 * 2^(n-5)) seconds for n >= 5; a failure whose
\* login state no concurrent login has overwritten since it was last clear
\* is counted as what it is, the n-th failure since then.
C11_LockoutSequence ==
  \A r \in LoginSlots :
    LET q == loginReq[r]
    IN  q.pc = "done" /\ q.counted > 0 =>
          /\ q.counted < LOGIN_LOCK_THRESHOLD =>
               q.status = 401 /\ q.error = "invalid_credentials"
          /\ q.counted >= LOGIN_LOCK_THRESHOLD =>
               /\ q.status = 429 /\ q.error = "login_locked"
               /\ q.retryAfterSeconds >= 30
               /\ q.retryAfterSeconds =
                    Min(900, 30 * Pow2(q.counted - LOGIN_LOCK_THRESHOLD))
          /\ ~q.raced => q.counted = q.ordinal

C11_Witness ==
  \E r \in LoginSlots :
    /\ loginReq[r].pc = "done" /\ loginReq[r].counted = 6 /\ loginReq[r].ordinal = 6
    /\ loginReq[r].status = 429 /\ loginReq[r].retryAfterSeconds = 60

\* C12: at most one bootstrap call is answered 200 and writes the admin
\* record; a call that starts when an admin exists is answered 409
\* admin_already_initialized, and the stored record stays the one the first
\* successful call wrote.
C12_OneBootstrap ==
  /\ Len(bootOk) <= 1
  /\ Len(bootOk) >= 1 => kvAdminUser = bootOk[1]
  /\ \A r \in BootSlots :
       bootReq[r].pc # "idle" /\ bootReq[r].existedAtStart =>
         bootReq[r].pc = "done" /\ bootReq[r].status = 409
           /\ bootReq[r].error = "admin_already_initialized"

\* C13: an authenticated runtime call that starts while the store holds no
\* active entry for the adapter, a disabled one, or an active manifest
\* without the action, and no registry call is in progress, is answered 403
\* action_not_allowed and causes no upstream request.  No adapter is enabled or applied in SpecRuntime, so
\* every call that starts after a disable stays before the next enable.
C13_DisabledDenied ==
  \A r \in ProxySlots :
    LET q == proxyReq[r]
    IN  q.offAtStart /\ q.keyId # "" =>
          /\ q.pc \in {"lookup", "loadManifests", "admit", "done"}
          /\ q.pc = "done" => q.status = 403 /\ q.error = "action_not_allowed"
          /\ \A o \in outbound : o.id # q.id

\* C14: no step of the registry lowers the active revision of an adapter:
\* whenever an adapter has an active entry before and after a step, the
\* revision after the step is at least the revision before it.
C14_RevisionNeverDecreases ==
  [][\A a \in Adapters :
       (kvIndex.active[a].present /\ kvIndex'.active[a].present) =>
         kvIndex'.active[a].revision >= kvIndex.active[a].revision]_vars

\* C15: manifest snapshots are written once: no step replaces the content
\* stored at (adapterId, revision) with different content or removes it.
C15_SnapshotWrittenOnce ==
  [][\A k \in Adapters \X Revisions :
       kvManifest[k].present => kvManifest'[k] = kvManifest[k]]_vars

\* a direct apply of a manifest that has returned 200, ran with no other
\* registry call in progress, and started from a registry in which the
\* manifest's revision was active with identical stored content
ReappliedAlone(r) ==
  LET req == regReq[r]
      m == req.manifest
  IN  /\ req.op = "apply" /\ req.pc = "done" /\ req.status = 200
      /\ req.solo /\ regCalls = req.callNo
      /\ ~req.proposal.present
      /\ req.pre.index.active[m.id].present
      /\ req.pre.index.active[m.id].revision = m.revision
      /\ req.pre.manifests[<<m.id, m.revision>>] = [present |-> TRUE, value |-> m]

ResolvesEmpty(manifest) ==
  {b \in SeqToSet(manifest.requiredSecrets) : ResolveSecretValue(kvVault, b) = ""}

\* C17: an apply answered missing_required_secrets lists exactly the
\* required bindings that resolve to empty through the vault resolver, and
\* there is at least one such binding.
C17_MissingSecretsResolved ==
  \A r \in RegSlots :
    (regReq[r].op = "apply" /\ regReq[r].pc = "done"
       /\ regReq[r].error = "missing_required_secrets") =>
      /\ ResolvesEmpty(regReq[r].manifest) # {}
      /\ regReq[r].missingSecrets = ResolvesEmpty(regReq[r].manifest)

\* C18: a runtime request that presents the key and the HMAC secret of a
\* generation that an answered rotate has replaced, and that starts after
\* that answer, is answered 401.
C18_OldCredentialsRejected ==
  (rtReq.pc = "done" /\ rtReq.revokedAtStart) => rtReq.status = 401

\* C19: in every state the runtime record's id and keyHash, the key secret
\* its keySecretBinding resolves to and the HMAC secret its hmacSecretBinding
\* resolves to belong to one generation of credentials.
C19_SameGeneration ==
  \E g \in Gens :
    /\ kvRuntime.id = KeyIds[g]
    /\ kvRuntime.keyHash = Sha256Hex(KeySecrets[g])
    /\ ResolveSecretValue(kvVault, kvRuntime.keySecretBinding) = KeySecrets[g]
    /\ ResolveSecretValue(kvVault, kvRuntime.hmacSecretBinding) = HmacSecrets[g]

\* C20: the responses of GET /v1/admin/secrets and of PUT and DELETE
\* /v1/admin/secrets/:binding do not depend on the stored plaintexts: two
\* boundaries that differ in plaintexts only answer every request alike.
C20_ResponsesIgnorePlaintext == secretResp = shadowResp

\* a secrets listing has been answered while the two vaults hold different
\* plaintexts for a listed binding
C20_Witness ==
  /\ secretResp.present
  /\ "secrets" \in DOMAIN secretResp.body
  /\ \E row \in secretResp.body.secrets :
       /\ kvVault[row.binding].present
       /\ GetVaultSecretValue(kvVault, row.binding)
            # GetVaultSecretValue(shadowVault, row.binding)

(***************************************************************************)
(* The vault's resolver                                                    *)
(***************************************************************************)
SpecVault == Init /\ [][NextVault]_vars

\* C21: resolveSecretValue(b) returns the plaintext of the last
\* putVaultSecret for b when there is one (put values are non-empty), and
\* the environment binding named b, or "", after a delete or without a put.
C21_ResolveReturnsLastPut ==
  lastResolve.present =>
    lastResolve.value = (IF lastResolve.put # "" THEN lastResolve.put ELSE EnvValue(lastResolve.binding))

(***************************************************************************)
(* The audit log of the proposal lifecycle                                 *)
(***************************************************************************)
Listed(eventType, proposalId) ==
  LET events == ListProposalAuditEvents(kvAudit, 0)
  IN  {events[i] : i \in {j \in 1..Len(events) :
                             /\ events[j].eventType = eventType
                             /\ events[j].proposalId = proposalId}}

Audited(r) ==
  (regReq[r].pc = "done" /\ regReq[r].status = 200 /\ regReq[r].proposal.present) =>
     /\ regReq[r].op = "submit" =>
          Listed("proposal_submitted", regReq[r].proposal.proposalId) # {}
     /\ regReq[r].op = "apply" =>
          Listed("proposal_approved", regReq[r].proposal.proposalId) # {}
     /\ regReq[r].op = "reject" =>
          \E e \in Listed("proposal_rejected", regReq[r].proposal.proposalId) :
             /\ e.reason = regReq[r].reason
             /\ e.manifest = regReq[r].proposal.manifest

\* C22: once a submit, an approval or a rejection of a proposal has
\* succeeded, the audit listing holds the transition's event with the
\* proposal's id; a proposal_rejected event carries the reason the reject
\* route passed on and the proposal's manifest; stored events are never
\* removed or rewritten and stay within the default listing limit.
C22_TransitionsAudited ==
  /\ [](\A r \in RegSlots : Audited(r))
  /\ [][/\ Len(kvAudit') >= Len(kvAudit)
        /\ Len(kvAudit') <= AUDIT_DEFAULT_LIMIT
        /\ \A i \in 1..Len(kvAudit) : kvAudit'[i] = kvAudit[i]]_vars

\* a proposal both submitted and approved, and one rejected with a padded reason
C22_Witness ==
  \E p \in ProposalIds :
     /\ Listed("proposal_submitted", p) # {}
     /\ \/ \E r \in RegSlots :
             /\ regReq[r].pc = "done" /\ regReq[r].op = "apply" /\ regReq[r].status = 200
             /\ regReq[r].proposal.present /\ regReq[r].proposal.proposalId = p
        \/ \E r \in RegSlots :
             /\ regReq[r].pc = "done" /\ regReq[r].op = "reject" /\ regReq[r].status = 200
             /\ regReq[r].proposal.present /\ regReq[r].proposal.proposalId = p
             /\ regReq[r].reason = ReasonOf(<<"b", "a", "d">>)

\* C23: a getAdapterAction lookup that starts while every index write made
\* in the isolate has completed (no registry call is between its read and
\* its write of the index) and is served from the cache gets the index the
\* store holds.
C23_LookupReflectsWrites ==
  \A r \in ProxySlots :
     (/\ proxyReq[r].pc = "lookup"
      /\ \A q \in RegSlots : regReq[q].pc \in {"idle", "done"}
      /\ registryCache.index.present
      /\ nowMs - registryCache.loadedAtMs < CACHE_TTL_MS)
       => registryCache.index.value = kvIndex

\* an approving apply that runs with no other registry call started since
\* it began
ApprovesAlone(r) ==
  /\ regReq[r].op = "apply" /\ regReq[r].proposal.present
  /\ regReq[r].solo /\ regCalls = regReq[r].callNo

\* C24: the KV writes of an approving apply occur in the order snapshot put,
\* index put, proposal record delete: the step that writes the index finds
\* the snapshot stored and the proposal record still there, and the step
\* that deletes the proposal record finds the index already written (the
\* adapter's entry at the manifest's revision, the proposal no longer
\* listed).
C24_SnapshotIndexThenDelete ==
  [][\A r \in RegSlots :
       ApprovesAlone(r) =>
         LET req == regReq[r]
             key == <<req.manifest.id, req.manifest.revision>>
             pid == req.proposal.proposalId
         IN  /\ kvIndex' # kvIndex =>
                  /\ kvManifest[key].present /\ kvManifest[key].value = req.manifest
                  /\ kvProposal[pid].present
             /\ (kvProposal[pid].present /\ ~kvProposal'[pid].present) =>
                  /\ kvManifest[key].present
                  /\ kvIndex.active[req.manifest.id].present
                  /\ kvIndex.active[req.manifest.id].revision = req.manifest.revision
                  /\ \A i \in 1..Len(kvIndex.proposals) :
                       kvIndex.proposals[i].proposalId # pid]_vars

(***************************************************************************)
(* Input validation                                                        *)
(***************************************************************************)
SpecSchema == Init /\ [][NextSchema]_vars

\* the value satisfies the declared type, its length or range bounds and
\* its enum
SatisfiesProperty(value, property) ==
  /\ \/ property.type = "string" /\ value.type = "string"
     \/ property.type = "integer" /\ value.type = "integer"
     \/ property.type = "number" /\ value.type \in {"integer", "fraction"}
     \/ property.type = "boolean" /\ value.type = "boolean"
  /\ ("minLength" \in DOMAIN property /\ property.type = "string") =>
        value.length >= property.minLength
  /\ ("maxLength" \in DOMAIN property /\ property.type = "string") =>
        value.length <= property.maxLength
  /\ ("minimum" \in DOMAIN property /\ property.type \in {"integer", "number"}) =>
        ~BelowMinimum(value, property)
  /\ ("maximum" \in DOMAIN property /\ property.type \in {"integer", "number"}) =>
        ~AboveMaximum(value, property)
  /\ "enum" \in DOMAIN property => value \in property.enum

\* every required key is present in the input, every key of the input is a
\* declared property or additionalProperties is true, every declared value
\* satisfies its property
SchemaAccepts(input, schema) ==
  LET properties == IF "properties" \in DOMAIN schema THEN schema.properties ELSE <<>>
      required == IF "required" \in DOMAIN schema THEN schema.required ELSE {}
      additional == "additionalProperties" \in DOMAIN schema /\ schema.additionalProperties
  IN  /\ required \subseteq DOMAIN input
      /\ \A k \in DOMAIN input :
            IF k \in DOMAIN properties THEN SatisfiesProperty(input[k], properties[k])
            ELSE additional

\* C25: validateInputWithSchema returns no error exactly when every required
\* key is present in the input, every key of the input is a declared
\* property or additionalProperties is true, and every declared value
\* satisfies its type, its length or range bounds and its enum.
C25_ValidatesExactly ==
  schemaCall.present =>
    ((schemaCall.errors = {}) <=> SchemaAccepts(schemaCall.input, schemaCall.schema))

\* the same for inputs and schemas that name no property of Object.prototype
C25_ValidatesOwnKeys ==
  (/\ schemaCall.present
   /\ DOMAIN schemaCall.input \cap ObjectPrototypeKeys = {}
   /\ "required" \in DOMAIN schemaCall.schema =>
         schemaCall.schema.required \cap ObjectPrototypeKeys = {})
    => ((schemaCall.errors = {}) <=> SchemaAccepts(schemaCall.input, schemaCall.schema))

(***************************************************************************)
(* The order of the runtime authentication checks                          *)
(***************************************************************************)
SpecAuthOrder == Init /\ [][NextAuthOrder]_vars

\* the reason of the first check that fails, in the order bearer format,
\* runtime record, key id, key secret, HMAC secret, timestamp syntax,
\* timestamp window, body hash, signature; "" when none fails
FirstFailure(call) ==
  LET r == call.request
      a == r.authorization
      wellFormed == /\ Len(a) = 4 /\ a[1] = "Bearer " /\ a[3] = "."
                    /\ a[2] # "" /\ a[4] # ""
      ts == r.timestamp.value
  IN  IF ~wellFormed THEN "invalid_runtime_key_format"
      ELSE IF ~call.runtime.present THEN "missing_runtime_config"
      ELSE IF a[2] # call.runtime.id THEN "unknown_runtime_key"
      ELSE IF Sha256Hex(a[4]) # call.runtime.keyHash THEN "invalid_runtime_key"
      ELSE IF call.hmacSecret = "" THEN "missing_hmac_secret"
      ELSE IF ~r.timestamp.digits THEN "invalid_timestamp"
      ELSE IF Abs(call.nowMs \div 1000 - ts) > call.runtime.skewSeconds
        THEN "stale_timestamp"
      ELSE IF r.bodySha256.hex # Sha256Hex(r.body) THEN "invalid_body_hash"
      ELSE IF r.signature.hex #
                HmacSha256Hex(call.hmacSecret,
                              <<ToUpperCase(r.method), r.path, ts, Sha256Hex(r.body)>>)
        THEN "invalid_signature"
      ELSE ""

\* C26: authenticateRuntimeRequest reports the reason of the first failing
\* check in the order invalid_runtime_key_format, missing_runtime_config,
\* unknown_runtime_key, invalid_runtime_key, missing_hmac_secret,
\* invalid_timestamp, stale_timestamp, invalid_body_hash, invalid_signature,
\* and succeeds when none fails.
C26_FirstFailingCheck ==
  authCall.present =>
    /\ authCall.result.reason = FirstFailure(authCall)
    /\ authCall.result.ok <=> FirstFailure(authCall) = ""

\* a call with a stale timestamp, a wrong body hash and a wrong signature
\* at once, answered stale_timestamp
C26_Witness ==
  /\ authCall.present
  /\ authCall.result.reason = "stale_timestamp"
  /\ authCall.request.bodySha256.hex # Sha256Hex(authCall.request.body)
  /\ authCall.request.signature.hex #
       HmacSha256Hex(authCall.hmacSecret,
                     <<ToUpperCase(authCall.request.method), authCall.request.path,
                       authCall.request.timestamp.value, Sha256Hex(authCall.request.body)>>)

(***************************************************************************)
(* The outbound call of the proxy                                          *)
(***************************************************************************)
SpecEgress == InitProxy /\ [][NextEgress]_vars
SpecEgressLive == InitProxy /\ [][NextEgress]_vars /\ EgressFairness

\* C27: each inbound runtime call issues at most one upstream request,
\* whatever the upstream does: no two requests in `outbound` belong to the
\* same call, and no call counts more than one fetch.
C27_NoRetry ==
  /\ \A o1 \in outbound, o2 \in outbound : o1.id = o2.id => o1 = o2
  /\ \A r \in ProxySlots : proxyReq[r].fetches <= 1

\* a call answered after a non-2xx upstream response, one upstream request
C27_Witness ==
  \E r \in ProxySlots :
     /\ proxyReq[r].pc = "done" /\ proxyReq[r].upstream = "not_ok"
     /\ \E o \in outbound : o.id = proxyReq[r].id

\* C28: a call whose outbound request was aborted by the per-action timeout
\* is answered with error upstream_error, as after a non-2xx upstream
\* response.
C28_TimeoutIsUpstreamError ==
  \A r \in ProxySlots :
     (proxyReq[r].pc = "done" /\ proxyReq[r].upstream \in {"timeout", "not_ok"}) =>
        proxyReq[r].error = "upstream_error"

\* C29: every call that has reached the outbound request is eventually
\* answered, whether the upstream never sends headers or sends headers and
\* stalls the body.
C29_OutboundCompletes ==
  \A r \in ProxySlots :
     (proxyReq[r].pc \in {"fetch", "body"}) ~> (proxyReq[r].pc \in {"done", "idle"})

\* the same for an upstream that has not yet sent its headers
C29_CompletesBeforeHeaders ==
  \A r \in ProxySlots :
     (proxyReq[r].pc = "fetch") ~> (proxyReq[r].pc \in {"body", "done", "idle"})

\* C30: a submit, approval or rejection whose audit write fails after the
\* registry has been updated still reports success: whenever a call leaves
\* its audit step without an event having been stored, it ends with 200.
C30_AuditFailureNonFatal ==
  [][\A r \in RegSlots :
       (regReq[r].pc = "audit" /\ regReq'[r].pc = "done" /\ kvAudit' = kvAudit) =>
          regReq'[r].status = 200]_vars

\* C31: apply is carried out only when exactly one of proposalId and manifest
\* is supplied: a call that carries both, or neither, is rejected at once and
\* never gets to read or write the registry.
C31_ExactlyOneArgument ==
  \A r \in RegSlots :
    (regReq[r].op = "apply" /\ Cardinality(regReq[r].supplied) # 1) =>
       (regReq[r].pc = "done" /\ regReq[r].status >= 400)

\* apply with neither argument is refused (the half of C31 the code keeps)
C31_NeitherRejected ==
  \A r \in RegSlots :
    (regReq[r].op = "apply" /\ regReq[r].supplied = {}) =>
       (regReq[r].pc = "done" /\ regReq[r].status = 400)

\* the body is a JSON object whose input member is a JSON object
InputIsObject(body) ==
  body.shape = "input_object"

\* the call has left payload parsing
PastPayloadParsing(req) ==
  req.pc \notin {"idle", "auth", "lookup", "loadManifests", "admit"}

\* C32: an authenticated call of an installed action proceeds past payload
\* parsing only if its body is a JSON object whose input member is a JSON
\* object; with any other body it ends with 400 invalid_input_payload and no
\* upstream request.
C32_OnlyInputObjectProceeds ==
  \A r \in ProxySlots :
    (PastPayloadParsing(proxyReq[r]) /\ ~InputIsObject(proxyReq[r].request.body)) =>
       /\ proxyReq[r].pc = "done"
       /\ proxyReq[r].status = 400 /\ proxyReq[r].error = "invalid_input_payload"
       /\ proxyReq[r].fetches = 0

\* the same with "input": null allowed to stand for the empty object
C32_ExceptInputNull ==
  \A r \in ProxySlots :
    (/\ PastPayloadParsing(proxyReq[r])
     /\ proxyReq[r].request.body.shape \notin {"input_object", "input_null"}) =>
       /\ proxyReq[r].pc = "done"
       /\ proxyReq[r].status = 400 /\ proxyReq[r].error = "invalid_input_payload"
       /\ proxyReq[r].fetches = 0

\* the stored events that resolve a proposal
Resolutions(proposalId) ==
  {i \in 1..Len(kvAudit) :
     /\ kvAudit[i].proposalId = proposalId
     /\ kvAudit[i].eventType \in {"proposal_approved", "proposal_rejected"}}

\* C33: a proposal is resolved at most once: whatever the interleaving of
\* apply(proposalId) and reject(proposalId) calls, the audit log holds at most
\* one proposal_approved or proposal_rejected event for a proposalId.
C33_ResolvedAtMostOnce ==
  \A p \in ProposalIds : Cardinality(Resolutions(p)) <= 1

\* proposal p's submit has reported success and no approval or rejection of
\* it has started
SubmittedAndPending(p) ==
  /\ \E i \in 1..Len(kvAudit) :
        kvAudit[i].eventType = "proposal_submitted" /\ kvAudit[i].proposalId = p
  /\ \A r \in RegSlots :
        (regReq[r].op = "submit" /\ regReq[r].proposal.present
           /\ regReq[r].proposal.proposalId = p) => regReq[r].pc \in {"done", "idle"}
  /\ kvProposal[p].present
  /\ Resolutions(p) = {}
  /\ \A r \in RegSlots :
        ~(/\ regReq[r].op \in {"apply", "reject"} /\ regReq[r].pc # "idle"
          /\ regReq[r].proposal.present /\ regReq[r].proposal.proposalId = p)

\* C34: registry operations do not lose each other's index updates: a
\* successfully submitted proposal stays listed in the index until an
\* approval or a rejection of it starts.
C34_SubmittedStaysListed ==
  \A p \in ProposalIds :
    SubmittedAndPending(p) =>
      \E i \in 1..Len(kvIndex.proposals) : kvIndex.proposals[i].proposalId = p

\* C35: logout is final: once the logout of session id s has returned, no
\* request that arrives carrying s passes session enforcement, even if
\* another request carrying s was between its session read and its session
\* write-back while the logout ran.
C35_LogoutIsFinal ==
  [][\A r \in AdminSlots :
       (/\ adminReq[r].pc = "idle" /\ adminReq'[r].pc # "idle"
        /\ adminReq'[r].route # "session/logout"
        /\ adminReq'[r].cookie \in loggedOut) =>
          adminReq'[r].pc \notin {"touchPut", "rotateDelete"}]_vars

\* the pairing record the generate call in `done` has written
WrittenPairing == kvPairing[PairingKvKey(genReq.code)].value

\* C36: every pairing record written by pairing/generate holds a runtimeKey
\* "<id>.<secret>" whose id is the current runtime record's id and whose
\* secret hashes to that record's keyHash, and the current HMAC secret; the
\* calls run one after the other, generate possibly right after a rotate.
C36_PairingCredentialsValid ==
  (genReq.pc = "done" /\ genReq.status = 200) =>
     /\ WrittenPairing.runtimeKey[1] = kvRuntime.id
     /\ Sha256Hex(WrittenPairing.runtimeKey[3]) = kvRuntime.keyHash
     /\ WrittenPairing.hmacSecret =
          ResolveSecretValue(kvVault, kvRuntime.hmacSecretBinding)

\* the part of C36 that holds: the secrets handed out are the current ones
C36_SecretsCurrent ==
  (genReq.pc = "done" /\ genReq.status = 200) =>
     /\ Sha256Hex(WrittenPairing.runtimeKey[3]) = kvRuntime.keyHash
     /\ WrittenPairing.hmacSecret =
          ResolveSecretValue(kvVault, kvRuntime.hmacSecretBinding)

\* the absolute lifetime of a login
AbsoluteLifetimeMs == SESSION_ABSOLUTE_TTL_SECONDS * 1000

\* C37: the absolute expiry of a login is never extended: every stored
\* session, however many touches and rotations produced it, has the createdAt
\* of the original login and expiresAt 8 hours after it, and no request passes
\* session enforcement later than 8 hours after that login.
C37_AbsoluteExpiryKept ==
  /\ \A s \in SessionIds :
        kvSession[s].present =>
          /\ kvSession[s].createdAt = loginAt[s]
          /\ kvSession[s].expiresAt = loginAt[s] + AbsoluteLifetimeMs
  /\ \A r \in AdminSlots :
        adminReq[r].pc \in {"rotateDelete", "rotatePut", "touchPut", "handler"} =>
          /\ adminReq[r].age <= AbsoluteLifetimeMs
          /\ adminReq[r].session.expiresAt = loginAt[adminReq[r].cookie] + AbsoluteLifetimeMs

\* a session that a rotation produced has been touched by a later request
C37_Witness ==
  /\ \E r \in AdminSlots :
        /\ adminReq[r].pc = "handler" /\ adminReq[r].cookie >= 2
        /\ adminReq[r].setCookie = 0
  /\ nowMs > 0

\* no login attempt for the username is between the comparison of the
\* password and the write of its failure
NoFailureInFlight(username) ==
  \A r \in LoginSlots :
    loginReq[r].username = username =>
      loginReq[r].pc \notin {"getUser", "trackGet", "trackPut", "clear"}

\* C38: concurrent failures are not lost from failedCount: whenever no
\* attempt of a username is under way, the stored failedCount is at least the
\* number of wrong-password attempts that reached password verification since
\* the login state was last cleared, so the fifth of them has set the lock.
C38_FailuresCounted ==
  \A u \in Usernames :
    NoFailureInFlight(u) =>
      ParseLoginState(kvLogin[u]).failedCount >= failures[u].n

\* the steps of an apply call before its first write
BeforeApplyWrites == {"idle", "readIndex", "readManifest"}

\* the registry's stores keep their content in this step
RegistryStoresUnchanged ==
  /\ kvIndex' = kvIndex /\ kvManifest' = kvManifest
  /\ kvProposal' = kvProposal /\ kvAudit' = kvAudit

\* C39: every failing apply leaves the index, the manifest snapshots, the
\* proposal records and the audit log unchanged: an apply call fails only in
\* a step before its first write, and none of the steps it took up to there
\* changes a store; a proposal whose approval fails is still stored.
C39_FailingApplyChangesNothing ==
  [][\A r \in RegSlots :
       /\ (/\ regReq'[r].op = "apply" /\ regReq'[r] # regReq[r]
           /\ regReq[r].pc \in BeforeApplyWrites) => RegistryStoresUnchanged
       /\ (/\ regReq'[r].op = "apply" /\ regReq[r].pc # "done"
           /\ regReq'[r].pc = "done" /\ regReq'[r].status # 200) =>
              /\ regReq[r].pc \in BeforeApplyWrites
              /\ RegistryStoresUnchanged
              /\ regReq'[r].proposal.present =>
                   kvProposal'[regReq'[r].proposal.proposalId].present]_vars

\* the approval of a stored proposal has failed and the proposal is still
\* stored and listed
C39_Witness ==
  \E r \in RegSlots :
    /\ regReq[r].op = "apply" /\ regReq[r].pc = "done" /\ regReq[r].status = 409
    /\ regReq[r].proposal.present
    /\ kvProposal[regReq[r].proposal.proposalId].present
    /\ \E i \in 1..Len(kvIndex.proposals) :
          kvIndex.proposals[i].proposalId = regReq[r].proposal.proposalId

\* request r passes the rate-limit step in this step
PassesRateLimit(r) ==
  proxyReq[r].pc = "admit" /\ proxyReq'[r].pc = "build"

\* the counter of request r's bucket goes up by one and no other counter
\* changes
BucketCountedOnce(r) ==
  LET key == CounterKey(proxyReq[r].keyId, proxyReq[r].adapter, proxyReq[r].action,
                        proxyReq[r].startedAt)
      existing == IF key \in DOMAIN rateCounters THEN rateCounters[key] ELSE 0
  IN  /\ key \in DOMAIN rateCounters'
      /\ rateCounters'[key] = existing + 1
      /\ DOMAIN rateCounters' = DOMAIN rateCounters \cup {key}
      /\ \A k \in DOMAIN rateCounters : k # key => rateCounters'[k] = rateCounters[k]

\* C40: a proxy request rejected before the rate-limit step leaves every
\* rate-limit counter unchanged, and a request that passes the step adds
\* exactly one to the counter of its bucket, whatever happens to it later:
\* the counters change in no other step.
C40_CountersFrame ==
  [][/\ \A r \in ProxySlots : PassesRateLimit(r) => BucketCountedOnce(r)
     /\ (\A r \in ProxySlots : ~PassesRateLimit(r)) => rateCounters' = rateCounters]_vars

\* a request that passed the rate limit and then got an upstream error is
\* counted once
C40_Witness ==
  \E r \in ProxySlots :
    /\ proxyReq[r].pc = "done" /\ proxyReq[r].status = 502
    /\ rateCounters[CounterKey(proxyReq[r].keyId, proxyReq[r].adapter, proxyReq[r].action,
                               proxyReq[r].startedAt)] = 1

====
